---- MODULE Spec2Model ----
(***************************************************************************)
(* PlantBuddy: the mini-application signature check                        *)
(* (bot.py, _validate_and_get_user_id), the storage layer (storage.py) and *)
(* the HTTP / chat handlers that call them.                                *)
(*                                                                         *)
(* Strings are sequences of one-character strings, so that canonical       *)
(* ordering, joining and single-character changes are computed and not     *)
(* assumed.  Instants are Unix seconds.                                    *)
(***************************************************************************)
EXTENDS Integers, Sequences, FiniteSets, TLC

VARIABLES
    now,        \* the wall clock, Unix seconds (time.time(), datetime.now)
    init_data,  \* the X-Telegram-InitData payload last presented
    req,        \* the request that has arrived and is not handled yet
    resp,       \* what the last handled request did and answered
    plants,     \* the plants table: id -> row
    user_data,  \* context.user_data of each chat user
    env,        \* the UTC offsets of the process zone and of the database
                \* session zone
    plant_photos  \* the plant_photos table: the rows in insertion order

vars == <<now, init_data, req, resp, plants, user_data, env, plant_photos>>

----------------------------------------------------------------------------
(* Bounds of the model *)

\* most non-hash pairs in a generated payload
MaxPairs == 2

\* most plant ids in the body of one POST /api/water
MaxIds == 2

\* most steps of the clock, a quarter of a day each
MaxTicks == 1

----------------------------------------------------------------------------
(* Program constants *)

ASGI_TTL_SECONDS == 300

SecondsPerDay == 24 * 60 * 60

\* the instant the model's clock starts at: 02:00 UTC of day 0
T0 == 2 * 60 * 60

\* the offset of TZ = ZoneInfo("Asia/Kolkata") from UTC, in seconds
TZ_OFFSET == 19800

\* SQL NULL / Python None in a column that otherwise holds a number >= 0
NULL == -1

BOT_TOKEN == "BOT_TOKEN"

OTHER_TOKEN == "OTHER_TOKEN"

----------------------------------------------------------------------------
(* Characters and strings *)

\* the characters the model uses, in code-point order; the last one stands
\* for a character outside ASCII
Alphabet ==
    << "\n", "\"", "0", "1", "2", "3", "4", "5", "6", "7", "8", "9", ":", "=",
       "A", "B", "C", "_", "a", "b", "c", "d", "e", "f", "h", "i", "o", "r", "s", "t", "u", "x",
       "{", "}", "U+00B2", "U+00E9" >>

Code(c) == CHOOSE i \in 1..Len(Alphabet) : Alphabet[i] = c

NonAscii == "U+00E9"

\* SUPERSCRIPT TWO: str.isdigit() is true of it and int() cannot read it
SuperscriptTwo == "U+00B2"

Digits == << "0", "1", "2", "3", "4", "5", "6", "7", "8", "9" >>

IsDigitChar(c) == \E i \in 1..10 : Digits[i] = c

DigitVal(c) == (CHOOSE i \in 1..10 : Digits[i] = c) - 1

\* a non-empty text of the digits 0 to 9
IsDigit(s) == Len(s) > 0 /\ \A i \in 1..Len(s) : IsDigitChar(s[i])

\* str.isdigit(): non-empty and every character a digit of some kind
StrIsDigit(s) ==
    Len(s) > 0 /\ \A i \in 1..Len(s) : IsDigitChar(s[i]) \/ s[i] = SuperscriptTwo

RECURSIVE ParseInt(_)
\* int(s) of a string of digits
ParseInt(s) ==
    IF s = <<>> THEN 0
    ELSE 10 * ParseInt(SubSeq(s, 1, Len(s) - 1)) + DigitVal(s[Len(s)])

RECURSIVE Itoa(_)
\* the decimal text of a natural number
Itoa(n) ==
    IF n < 10 THEN << Digits[n + 1] >>
    ELSE Itoa(n \div 10) \o << Digits[(n % 10) + 1] >>

RECURSIVE LexLess(_, _)
\* a < b for Python strings: code point by code point, a prefix first
LexLess(a, b) ==
    IF a = <<>> THEN b # <<>>
    ELSE IF b = <<>> THEN FALSE
    ELSE IF Code(Head(a)) < Code(Head(b)) THEN TRUE
    ELSE IF Code(Head(a)) > Code(Head(b)) THEN FALSE
    ELSE LexLess(Tail(a), Tail(b))

K_hash == << "h", "a", "s", "h" >>

K_auth_date == << "a", "u", "t", "h", "_", "d", "a", "t", "e" >>

K_user == << "u", "s", "e", "r" >>

K_user_id == << "u", "s", "e", "r", "_", "i", "d" >>

K_foo == << "f", "o", "o" >>

----------------------------------------------------------------------------
(* bot.py: _validate_and_get_user_id *)

\* the header is the sequence of its segments between "&", in arrival order
\* (empty for an empty header): a segment is a pair <<key, value>>, or empty
PKey(p) == p[1]

PVal(p) == p[2]

EmptySegment == <<>>

\* parse_qsl(init_data, keep_blank_values=True): the pairs, empty segments
\* skipped
ParseQsl(data) == SelectSeq(data, LAMBDA seg : seg # EmptySegment)

RECURSIVE DictOf(_)
\* dict(pairs): one entry per key, at the place of the key's first arrival,
\* holding the value of its last arrival
DictOf(data) ==
    IF data = <<>> THEN <<>>
    ELSE LET d == DictOf(SubSeq(data, 1, Len(data) - 1))
             p == data[Len(data)]
         IN  IF \E i \in 1..Len(d) : PKey(d[i]) = PKey(p)
             THEN [i \in 1..Len(d) |-> IF PKey(d[i]) = PKey(p) THEN p ELSE d[i]]
             ELSE Append(d, p)

DictHas(d, k) == \E i \in 1..Len(d) : PKey(d[i]) = k

\* d[k], for a key d has
DictGet(d, k) == PVal(d[CHOOSE i \in 1..Len(d) : PKey(d[i]) = k])

\* d after pop(k)
DictPop(d, k) == SelectSeq(d, LAMBDA p : PKey(p) # k)

\* pairs.keys() without sorted(): the keys in insertion order
InsertionKeys(d) == [i \in 1..Len(d) |-> PKey(d[i])]

\* sorted(pairs.keys())
SortedKeys(d) ==
    [i \in 1..Len(d) |->
        CHOOSE k \in {PKey(d[j]) : j \in 1..Len(d)} :
            Cardinality({j \in 1..Len(d) : LexLess(PKey(d[j]), k)}) = i - 1]

RECURSIVE JoinLines(_)
\* "\n".join(items)
JoinLines(items) ==
    IF items = <<>> THEN <<>>
    ELSE IF Len(items) = 1 THEN items[1]
    ELSE items[1] \o << "\n" >> \o JoinLines(Tail(items))

\* data_check_string: "k=v" for every key in sorted order, joined by "\n"
DataCheckString(d) ==
    LET ks == SortedKeys(d)
    IN  JoinLines([i \in 1..Len(ks) |-> ks[i] \o << "=" >> \o DictGet(d, ks[i])])

\* hmac.new(key, msg, sha256).digest(): an ideal keyed hash, two digests are
\* equal exactly when key and message are
HmacSha256(key, msg) == << "hmac(" >> \o key \o << "|" >> \o msg \o << ")" >>

\* .hexdigest(): the lowercase hex text of a digest
HexDigest(digest) == << "hex" >> \o digest

\* secret_key = HMAC_SHA256(key="WebAppData", msg=token)
SecretKey(token) == HmacSha256(<< "WebAppData" >>, << token >>)

CalculatedHash(token, dcs) == HexDigest(HmacSha256(SecretKey(token), dcs))

\* the text holds a character outside ASCII; the hex text of a digest holds
\* none, whatever was digested
HasNonAscii(s) ==
    IF Len(s) > 0 /\ s[1] = "hex" THEN FALSE
    ELSE \E i \in 1..Len(s) : s[i] \in {NonAscii, SuperscriptTwo}

\* the window test with its edge excluded
ExpiredOffByOne(t, auth_date) == t - auth_date >= ASGI_TTL_SECONDS

\* time.time() - auth_date > ASGI_TTL_SECONDS
Expired(t, auth_date) == t - auth_date > ASGI_TTL_SECONDS

IdPrefix == << "{", "\"", "i", "d", "\"", ":" >>

\* a JSON number made of digits: no leading zero
JsonNumber(s) == IsDigit(s) /\ (Len(s) = 1 \/ s[1] # "0")

\* the texts int(str) reads as an integer, among those made of digits and
\* "_": digits with single underscores between them
PyIntText(s) ==
    /\ Len(s) > 0
    /\ IsDigitChar(s[1])
    /\ IsDigitChar(s[Len(s)])
    /\ \A i \in 1..Len(s) : IsDigitChar(s[i]) \/ s[i] = "_"
    /\ \A i \in 1..(Len(s) - 1) : ~(s[i] = "_" /\ s[i + 1] = "_")

PyIntValue(s) == ParseInt(SelectSeq(s, LAMBDA c : IsDigitChar(c)))

\* a JSON number with an exponent and no fraction: <number>e<digits>
JsonExpNumber(s) ==
    \E i \in 2..(Len(s) - 1) :
        /\ s[i] = "e"
        /\ JsonNumber(SubSeq(s, 1, i - 1))
        /\ IsDigit(SubSeq(s, i + 1, Len(s)))

\* int() of the float such a number is read as
JsonExpValue(s) ==
    LET i == CHOOSE k \in 2..(Len(s) - 1) : s[k] = "e"
    IN  ParseInt(SubSeq(s, 1, i - 1)) * 10 ^ ParseInt(SubSeq(s, i + 1, Len(s)))

\* a JSON number with a fraction and no exponent: <number>.<digits>
JsonFraction(s) ==
    \E i \in 2..(Len(s) - 1) :
        /\ s[i] = "."
        /\ JsonNumber(SubSeq(s, 1, i - 1))
        /\ IsDigit(SubSeq(s, i + 1, Len(s)))

\* int() of the float such a number is read as: the fraction is dropped
JsonFractionValue(s) ==
    LET i == CHOOSE k \in 2..(Len(s) - 1) : s[k] = "."
    IN  ParseInt(SubSeq(s, 1, i - 1))

\* int(v) for the JSON value v the text body spells: a number, a number with
\* a fraction or an exponent (a float, truncated), true (a bool, 1) or a
\* string int(str) can read; int() of null, of any other string, of a list
\* or of an object raises
IntOfJson(body) ==
    LET inner == SubSeq(body, 2, Len(body) - 1)
    IN  IF JsonNumber(body) THEN [ok |-> TRUE, id |-> ParseInt(body)]
        ELSE IF JsonExpNumber(body) THEN [ok |-> TRUE, id |-> JsonExpValue(body)]
        ELSE IF JsonFraction(body)
        THEN [ok |-> TRUE, id |-> JsonFractionValue(body)]
        ELSE IF body = << "t", "r", "u", "e" >> THEN [ok |-> TRUE, id |-> 1]
        ELSE IF Len(body) >= 3 /\ body[1] = "\"" /\ body[Len(body)] = "\""
                /\ PyIntText(inner)
        THEN [ok |-> TRUE, id |-> PyIntValue(inner)]
        ELSE [ok |-> FALSE, id |-> 0]

\* int(json.loads(user_raw).get("id")): of the texts the model's alphabet
\* can spell, those that yield an id are the objects {"id":<value>} with a
\* value int() accepts; every other text raises inside the try block
UserIdOf(user_raw) ==
    LET n == Len(user_raw)
    IN  IF n >= 8 /\ SubSeq(user_raw, 1, 6) = IdPrefix /\ user_raw[n] = "}"
        THEN IntOfJson(SubSeq(user_raw, 7, n - 1))
        ELSE [ok |-> FALSE, id |-> 0]

Granted(uid) == [ok |-> TRUE, user_id |-> uid, status |-> 200, detail |-> "ok"]

Raised(code, text) == [ok |-> FALSE, user_id |-> 0, status |-> code, detail |-> text]

\* the identity step: pairs.get("user"), json.loads, int(...)
IdentityOf(d) ==
    IF ~DictHas(d, K_user) \/ DictGet(d, K_user) = <<>>
    THEN Raised(401, "Missing user")
    ELSE LET u == UserIdOf(DictGet(d, K_user))
         IN  IF u.ok THEN Granted(u.id) ELSE Raised(401, "Bad user payload")

\* the freshness step and what follows it; int(auth_date_raw) is outside
\* any try block, so a text isdigit() passes and int() cannot read ends the
\* request with an unhandled ValueError
FreshnessThenIdentity(d, t) ==
    IF DictHas(d, K_auth_date) /\ StrIsDigit(DictGet(d, K_auth_date))
    THEN IF ~IsDigit(DictGet(d, K_auth_date))
         THEN Raised(500, "ValueError")
         ELSE IF Expired(t, ParseInt(DictGet(d, K_auth_date)))
         THEN Raised(401, "initData expired")
         ELSE IdentityOf(d)
    ELSE IdentityOf(d)

\* the verifier without its test of received_hash: an absent hash is
\* compared as the empty text
ValidateWithoutHashTest(data, t) ==
    IF data = <<>> THEN Raised(401, "Missing initData")
    ELSE LET all == DictOf(ParseQsl(data))
             pairs == DictPop(all, K_hash)
             received == IF DictHas(all, K_hash) THEN DictGet(all, K_hash)
                         ELSE <<>>
         IN  IF HasNonAscii(received)
             THEN Raised(500, "TypeError")
             ELSE IF CalculatedHash(BOT_TOKEN, DataCheckString(pairs)) # received
             THEN Raised(401, "Bad initData hash")
             ELSE FreshnessThenIdentity(pairs, t)

\* _validate_and_get_user_id(init_data) called at instant t.  An uncaught
\* TypeError of hmac.compare_digest (a received hash outside ASCII) is
\* answered 500 by the framework.
ValidateAndGetUserId(data, t) ==
    IF data = <<>> THEN Raised(401, "Missing initData")
    ELSE LET all == DictOf(ParseQsl(data))
             pairs == DictPop(all, K_hash)
         IN  IF ~DictHas(all, K_hash) \/ DictGet(all, K_hash) = <<>>
             THEN Raised(401, "Missing hash")
             ELSE IF HasNonAscii(DictGet(all, K_hash))
             THEN Raised(500, "TypeError")
             ELSE IF CalculatedHash(BOT_TOKEN, DataCheckString(pairs))
                        # DictGet(all, K_hash)
             THEN Raised(401, "Bad initData hash")
             ELSE FreshnessThenIdentity(pairs, t)

----------------------------------------------------------------------------
(* Payloads presented to the verifier *)

\* the value a payload gives key k: that of the key's last arrival
LastVal(data, k) ==
    LET ps == ParseQsl(data)
    IN  PVal(ps[CHOOSE i \in 1..Len(ps) :
                   /\ PKey(ps[i]) = k
                   /\ \A j \in (i + 1)..Len(ps) : PKey(ps[j]) # k])

HasKey(data, k) == \E i \in 1..Len(ParseQsl(data)) : PKey(ParseQsl(data)[i]) = k

RECURSIVE LinesInOrder(_)
\* the lines "k=v" of a set of pairs with distinct keys, least key first
LinesInOrder(ps) ==
    IF ps = {} THEN <<>>
    ELSE LET least == CHOOSE p \in ps :
                          \A q \in ps : q = p \/ LexLess(PKey(p), PKey(q))
         IN  << PKey(least) \o << "=" >> \o PVal(least) >>
                 \o LinesInOrder(ps \ {least})

\* the check string the platform signs (its documented algorithm, which the
\* docstring of _validate_and_get_user_id refers to): hash removed, keys
\* sorted, "key=value" lines joined by a newline
CanonicalCheckString(data) ==
    JoinLines(LinesInOrder(
        { << k, LastVal(data, k) >> :
            k \in { PKey(ParseQsl(data)[i]) : i \in 1..Len(ParseQsl(data)) }
                     \ { K_hash } }))

\* the hash the platform issues for a payload under a bot token
PlatformHash(token, data) ==
    HexDigest(HmacSha256(SecretKey(token), CanonicalCheckString(data)))

UserJson(n) == IdPrefix \o Itoa(n) \o << "}" >>

\* the non-hash pairs a generated payload is made of: auth_date at the edge
\* of the window, one second past it, hours past it, not a number and a
\* digit int() cannot read; user as an object with an integer id, without
\* an id, and with the id true; a flat user_id;
\* two values of a key the verifier does not read
PairChoices ==
    { << K_auth_date, Itoa(T0 - ASGI_TTL_SECONDS) >>,
      << K_auth_date, Itoa(T0 - ASGI_TTL_SECONDS - 1) >>,
      << K_auth_date, Itoa(0) >>,
      << K_auth_date, << "x" >> >>,
      << K_auth_date, << SuperscriptTwo >> >>,
      << K_user, UserJson(42) >>,
      << K_user, << "{", "}" >> >>,
      << K_user, IdPrefix \o << "t", "r", "u", "e", "}" >> >>,
      << K_user_id, Itoa(7) >>,
      << K_foo, << "a" >> >>,
      << K_foo, << "b" >> >> }

PairSeqs == UNION { [1..n -> PairChoices] : n \in 0..MaxPairs }

\* the hash values a client may send with the pairs ps: the platform's
\* signature, a signature under another token, an empty one, one outside
\* ASCII
HashChoices(ps) ==
    { PlatformHash(BOT_TOKEN, ps),
      PlatformHash(OTHER_TOKEN, ps),
      <<>>,
      << NonAscii >> }

\* ps with the pair hash=h put in front or at the end
WithHash(ps, h) == { << << K_hash, h >> >> \o ps, Append(ps, << K_hash, h >>) }

\* the headers "&" and "&user={"id":42}": segments, no hash
BlankPayloads ==
    { << EmptySegment, EmptySegment >>,
      << EmptySegment, << K_user, UserJson(42) >> >> }

Payloads ==
    PairSeqs \cup BlankPayloads \cup
    UNION { UNION { WithHash(ps, h) : h \in HashChoices(ps) } : ps \in PairSeqs }

\* the characters a tampering client writes over a character of a value
TamperChars == { "0", "x" }

\* data with character j of the value of pair i replaced by c
Tampered(data, i, j, c) ==
    [data EXCEPT ![i] = << PKey(data[i]), [PVal(data[i]) EXCEPT ![j] = c] >>]

NoResp == [op |-> "none"]

NoReq == [op |-> "none"]

Users == {1, 2}

\* context.user_data after clear(): no flag, no selection, no cached rows
Cleared ==
    [flags |-> {}, water_sel_ids |-> {}, water_rows_cache |-> <<>>,
     photo_plant_id |-> NULL]

NoUserData == [u \in Users |-> Cleared]

\* process and database session both on UTC
UtcEnv == [proc |-> 0, db |-> 0]

\* the mini-app presents init_data and the verifier answers
VerifyCall ==
    /\ resp.op = "none"
    /\ resp' = [op |-> "verify", v |-> ValidateAndGetUserId(init_data, now)]
    /\ UNCHANGED <<now, init_data, req, plants, user_data, env, plant_photos>>

\* a payload that verified is presented again with one character of one
\* non-hash value changed and the hash as it was
TamperCall ==
    /\ resp.op = "verify"
    /\ resp.v.ok
    /\ \E i \in 1..Len(init_data) :
         /\ PKey(init_data[i]) # K_hash
         /\ \E j \in 1..Len(PVal(init_data[i])), c \in TamperChars :
              /\ c # PVal(init_data[i])[j]
              /\ init_data' = Tampered(init_data, i, j, c)
              /\ resp' = [op |-> "tamper", at |-> i,
                          v |-> ValidateAndGetUserId(init_data', now)]
    /\ UNCHANGED <<now, req, plants, user_data, env, plant_photos>>

\* the segments of a payload with those at i and j exchanged
Swapped(data, i, j) ==
    [k \in 1..Len(data) |->
        IF k = i THEN data[j] ELSE IF k = j THEN data[i] ELSE data[k]]

\* data_check_string as the verifier builds it from a received payload
CheckStringOf(data) == DataCheckString(DictPop(DictOf(ParseQsl(data)), K_hash))

\* a payload that was presented is presented again with two of its segments
\* in exchanged places
ReorderCall ==
    /\ resp.op = "verify"
    /\ \E i \in 1..Len(init_data), j \in 1..Len(init_data) :
         /\ i < j
         /\ init_data[i] # init_data[j]
         /\ init_data' = Swapped(init_data, i, j)
         /\ resp' = [op |-> "reorder", from |-> init_data, before |-> resp.v,
                     v |-> ValidateAndGetUserId(init_data', now)]
    /\ UNCHANGED <<now, req, plants, user_data, env, plant_photos>>

InitVerify ==
    /\ now = T0
    /\ init_data \in Payloads
    /\ req = NoReq
    /\ resp = NoResp
    /\ plants = <<>>
    /\ user_data = NoUserData
    /\ env = UtcEnv
    /\ plant_photos = <<>>

NextVerify == VerifyCall \/ TamperCall \/ ReorderCall

SpecVerify == InitVerify /\ [][NextVerify]_vars

----------------------------------------------------------------------------
(* Claims about the verifier *)

\* a payload carrying the platform's hash of its own pairs
Signed(data) ==
    /\ HasKey(data, K_hash)
    /\ LastVal(data, K_hash) = PlatformHash(BOT_TOKEN, data)

\* auth_date is a number no more than the window before t
InWindow(data, t) ==
    /\ HasKey(data, K_auth_date)
    /\ IsDigit(LastVal(data, K_auth_date))
    /\ t - ParseInt(LastVal(data, K_auth_date)) <= ASGI_TTL_SECONDS

\* user is the JSON object {"id":n}
NamesUser(data, n) == HasKey(data, K_user) /\ LastVal(data, K_user) = UserJson(n)

\* C1: a payload whose hash is the lowercase-hex HMAC-SHA256 of its canonical
\* check string under the key derived from the bot token, whose auth_date is
\* inside the freshness window and whose user is a JSON object with integer
\* id n, is accepted and yields exactly n.
C1_ValidPayloadYieldsItsUser ==
    (resp.op = "verify" /\ Signed(init_data) /\ InWindow(init_data, now)) =>
        \A n \in 0..99 :
            (Signed(init_data) /\ InWindow(init_data, now)
                /\ NamesUser(init_data, n)) => resp.v = Granted(n)

\* C1 witness: such a payload, its pairs arriving out of key order (user
\* first, the hash in the middle of the rest) with auth_date exactly at the
\* edge of the window, was accepted as user 42.
C1_Witness ==
    /\ resp.op = "verify"
    /\ Signed(init_data)
    /\ InWindow(init_data, now)
    /\ NamesUser(init_data, 42)
    /\ Len(init_data) >= 3
    /\ PKey(init_data[1]) = K_hash
    /\ PKey(init_data[2]) = K_user
    /\ now - ParseInt(LastVal(init_data, K_auth_date)) = ASGI_TTL_SECONDS
    /\ resp.v = Granted(42)

\* C2 (as stated): after a payload verified, changing one character of the
\* value of any received non-hash pair, the hash left as it was, makes the
\* verifier answer 401 "Bad initData hash".
C2_AnyValueChangeBreaksSignature ==
    resp.op = "tamper" => resp.v = Raised(401, "Bad initData hash")

\* C2 witness of the failing case: the changed pair is shadowed by a later
\* pair of the same key and the payload still verifies.
C2_ShadowedPairAccepted ==
    /\ resp.op = "tamper"
    /\ resp.v.ok
    /\ \E j \in (resp.at + 1)..Len(init_data) :
         PKey(init_data[j]) = PKey(init_data[resp.at])

\* the age at t of a payload whose auth_date is a number
AgeAt(data, t) == t - ParseInt(LastVal(data, K_auth_date))

HasNumericAuthDate(data) ==
    HasKey(data, K_auth_date) /\ IsDigit(LastVal(data, K_auth_date))

\* C15: a correctly signed payload whose auth_date is exactly
\* ASGI_TTL_SECONDS before now is not turned down as expired, and is
\* accepted when it names a user; one whose auth_date is ASGI_TTL_SECONDS + 1
\* seconds or more before now is answered 401 "initData expired".
C15_FreshnessBoundary ==
    (resp.op = "verify" /\ Signed(init_data) /\ HasNumericAuthDate(init_data)) =>
        /\ AgeAt(init_data, now) = ASGI_TTL_SECONDS =>
              /\ resp.v.detail # "initData expired"
              /\ NamesUser(init_data, 42) => resp.v = Granted(42)
        /\ AgeAt(init_data, now) >= ASGI_TTL_SECONDS + 1 =>
              resp.v = Raised(401, "initData expired")

\* C15: a correctly signed payload of user 42 issued ASGI_TTL_SECONDS + 1
\* seconds ago has been answered 401 "initData expired".
C15_Witness ==
    /\ resp.op = "verify"
    /\ Signed(init_data)
    /\ HasNumericAuthDate(init_data)
    /\ AgeAt(init_data, now) = ASGI_TTL_SECONDS + 1
    /\ NamesUser(init_data, 42)
    /\ resp.v = Raised(401, "initData expired")

\* C16: a non-empty payload without a hash key is answered 401
\* "Missing hash", whatever its other pairs are, and yields no identity.
C16_NoHashKeyIsMissingHash ==
    (resp.op = "verify" /\ init_data # <<>> /\ ~HasKey(init_data, K_hash)) =>
        (resp.v = Raised(401, "Missing hash") /\ ~resp.v.ok)

\* C16: a payload holding a fresh auth_date and the user 42 but no hash has
\* been answered 401 "Missing hash".
C16_Witness ==
    /\ resp.op = "verify"
    /\ ~HasKey(init_data, K_hash)
    /\ InWindow(init_data, now)
    /\ NamesUser(init_data, 42)
    /\ resp.v = Raised(401, "Missing hash")

\* the user value holds an integer id: {"id":N} or {"id":"N"} with N digits
HoldsIntegerId(u) ==
    /\ Len(u) >= 8
    /\ SubSeq(u, 1, 6) = IdPrefix
    /\ u[Len(u)] = "}"
    /\ LET body == SubSeq(u, 7, Len(u) - 1)
       IN  \/ JsonNumber(body)
           \/ /\ Len(body) >= 3
              /\ body[1] = "\"" /\ body[Len(body)] = "\""
              /\ IsDigit(SubSeq(body, 2, Len(body) - 1))

\* the integer such a value holds
IntegerIdOf(u) ==
    LET body == SubSeq(u, 7, Len(u) - 1)
    IN  IF JsonNumber(body) THEN ParseInt(body)
        ELSE ParseInt(SubSeq(body, 2, Len(body) - 1))

\* auth_date does not put the payload outside the freshness window
NotStale(data, t) ==
    HasNumericAuthDate(data) => AgeAt(data, t) <= ASGI_TTL_SECONDS

\* C17: a correctly signed, fresh payload whose user field is missing or
\* holds no integer id is answered 401 with no identity, and an accepted
\* payload yields exactly the integer its user field holds.
C17_IdentityIsAnIntegerOfThePayload ==
    (resp.op = "verify" /\ Signed(init_data) /\ NotStale(init_data, now)) =>
        /\ (~HasKey(init_data, K_user)
              \/ ~HoldsIntegerId(LastVal(init_data, K_user))) =>
                 /\ ~resp.v.ok
                 /\ resp.v.status = 401
                 /\ resp.v.detail \in {"Missing user", "Bad user payload"}
        /\ resp.v.ok =>
                 /\ HasKey(init_data, K_user)
                 /\ HoldsIntegerId(LastVal(init_data, K_user))
                 /\ resp.v.user_id = IntegerIdOf(LastVal(init_data, K_user))

\* C17: a correctly signed, fresh payload whose user is {"id":true} has been
\* accepted with the identity 1.
C17_BooleanIdAccepted ==
    /\ resp.op = "verify"
    /\ Signed(init_data)
    /\ InWindow(init_data, now)
    /\ HasKey(init_data, K_user)
    /\ LastVal(init_data, K_user) = IdPrefix \o << "t", "r", "u", "e", "}" >>
    /\ resp.v = Granted(1)

\* the payload has no user field and a flat user_id field holding digits
FlatIdentityOnly(data) ==
    /\ ~HasKey(data, K_user)
    /\ HasKey(data, K_user_id)
    /\ IsDigit(LastVal(data, K_user_id))

\* C18: a correctly signed, fresh payload with no user field and a flat
\* user_id field holding the integer N is accepted and yields N.
C18_FlatUserIdYieldsIdentity ==
    (resp.op = "verify" /\ Signed(init_data) /\ NotStale(init_data, now)
        /\ FlatIdentityOnly(init_data)) =>
        resp.v = Granted(ParseInt(LastVal(init_data, K_user_id)))

\* C18: a correctly signed, fresh payload with no user field and user_id=7
\* has been answered 401 "Missing user".
C18_FlatUserIdRejected ==
    /\ resp.op = "verify"
    /\ Signed(init_data)
    /\ InWindow(init_data, now)
    /\ FlatIdentityOnly(init_data)
    /\ ParseInt(LastVal(init_data, K_user_id)) = 7
    /\ resp.v = Raised(401, "Missing user")

\* auth_date is absent or is not a text of digits
NoUsableAuthDate(data) ==
    ~HasKey(data, K_auth_date) \/ ~IsDigit(LastVal(data, K_auth_date))

\* C19: a correctly signed payload whose auth_date is absent or is not an
\* integer is never answered "initData expired", and is accepted with its
\* user when it names one, whatever the time of the call.
C19_FreshnessSkippedWithoutAuthDate ==
    (resp.op = "verify" /\ Signed(init_data) /\ NoUsableAuthDate(init_data)) =>
        /\ resp.v.detail # "initData expired"
        /\ NamesUser(init_data, 42) => resp.v = Granted(42)

\* C19: a correctly signed payload whose auth_date is a superscript two and
\* whose user is 42 has been answered with an unhandled ValueError.
C19_UnreadableAuthDateRaises ==
    /\ resp.op = "verify"
    /\ Signed(init_data)
    /\ HasKey(init_data, K_auth_date)
    /\ LastVal(init_data, K_auth_date) = << SuperscriptTwo >>
    /\ NamesUser(init_data, 42)
    /\ resp.v = Raised(500, "ValueError")

\* the non-hash pairs of a payload, as a bag
PairBag(data) ==
    LET ps == SelectSeq(ParseQsl(data), LAMBDA p : PKey(p) # K_hash)
    IN  [p \in {ps[i] : i \in 1..Len(ps)} |->
            Cardinality({i \in 1..Len(ps) : ps[i] = p})]

\* no key occurs twice among the pairs of a payload
DistinctKeys(data) ==
    LET ps == ParseQsl(data)
    IN  \A i \in 1..Len(ps), j \in 1..Len(ps) :
            PKey(ps[i]) = PKey(ps[j]) => i = j

\* C20: a payload presented again with the same pairs in another order gives
\* the same check string, and its hash is turned down in one order exactly
\* when it is turned down in the other.
C20_OrderIndependent ==
    (resp.op = "reorder" /\ PairBag(init_data) = PairBag(resp.from)) =>
        /\ CheckStringOf(init_data) = CheckStringOf(resp.from)
        /\ (resp.v.detail = "Bad initData hash")
              <=> (resp.before.detail = "Bad initData hash")

\* C20: a payload holding user={} before user={"id":42} was accepted as user
\* 42, and the same pairs with the two exchanged gave another check string
\* and were answered 401 "Bad initData hash".
C20_OrderChangesCheckString ==
    /\ resp.op = "reorder"
    /\ PairBag(init_data) = PairBag(resp.from)
    /\ resp.before = Granted(42)
    /\ CheckStringOf(init_data) # CheckStringOf(resp.from)
    /\ resp.v = Raised(401, "Bad initData hash")

\* the payload carries a hash that has a value
HasHashValue(data) == HasKey(data, K_hash) /\ LastVal(data, K_hash) # <<>>

\* auth_date is a number more than the window before t
Stale(data, t) == HasNumericAuthDate(data) /\ AgeAt(data, t) > ASGI_TTL_SECONDS

\* C29: the verifier reports the first check that fails, in the order empty
\* input, missing hash, signature, freshness, identity: a payload whose hash
\* does not match is answered 401 "Bad initData hash" whatever its auth_date
\* and user are, and a stale correctly signed payload is answered 401
\* "initData expired" whether or not it names a user.
C29_FirstFailingCheckIsReported ==
    resp.op = "verify" =>
       /\ init_data = <<>> => resp.v = Raised(401, "Missing initData")
       /\ (init_data # <<>> /\ ~HasHashValue(init_data)) =>
              resp.v = Raised(401, "Missing hash")
       /\ (HasHashValue(init_data) /\ ~Signed(init_data)) =>
              resp.v = Raised(401, "Bad initData hash")
       /\ (Signed(init_data) /\ Stale(init_data, now)) =>
              resp.v = Raised(401, "initData expired")
       /\ (Signed(init_data) /\ NotStale(init_data, now)
              /\ HasNumericAuthDate(init_data)) =>
              resp.v.detail \in {"ok", "Missing user", "Bad user payload"}

\* C29: a stale payload without user whose hash is a character outside
\* ASCII has been answered 500: the comparison of the hashes raised
\* TypeError.
C29_WrongHashRaises ==
    /\ resp.op = "verify"
    /\ Stale(init_data, now)
    /\ ~HasKey(init_data, K_user)
    /\ HasHashValue(init_data)
    /\ ~Signed(init_data)
    /\ resp.v = Raised(500, "TypeError")

----------------------------------------------------------------------------
(* storage.py: the plants table *)

\* a row of plants; water_every_days and last_watered_at are NULL or >= 0
Row(uid, name, every, last, active) ==
    [user_id |-> uid, name |-> name, water_every_days |-> every,
     last_watered_at |-> last, active |-> active]

\* the WHERE clause without its user_id test
MatchesAnyOwner(tbl, uid, pid) == pid \in DOMAIN tbl /\ tbl[pid].active

\* WHERE id=%s AND user_id=%s AND active=TRUE
MatchesActive(tbl, uid, pid) ==
    pid \in DOMAIN tbl /\ tbl[pid].user_id = uid /\ tbl[pid].active

\* UPDATE plants SET last_watered_at=%s WHERE id=%s AND user_id=%s AND
\* active=TRUE: the table after it (cur.rowcount is 1 exactly when it matched)
SetLastWatered(tbl, uid, pid, when) ==
    IF MatchesActive(tbl, uid, pid)
    THEN [tbl EXCEPT ![pid].last_watered_at = when]
    ELSE tbl

RECURSIVE WaterLoop(_, _, _, _, _, _, _)
\* the loop of log_water_many from statement k on, inside one transaction.
\* fail is the statement at which the database raises (0: none does).
WaterLoop(tbl, uid, ids, when, k, fail, updated) ==
    IF k > Len(ids) THEN [plants |-> tbl, updated |-> updated, raised |-> FALSE]
    ELSE IF k = fail THEN [plants |-> tbl, updated |-> updated, raised |-> TRUE]
    ELSE WaterLoop(SetLastWatered(tbl, uid, ids[k], when), uid, ids, when,
                   k + 1, fail,
                   IF MatchesActive(tbl, uid, ids[k]) THEN updated + 1 ELSE updated)

\* log_water_many without its test for an empty list, the update written as
\* one statement over the list: an empty list is a statement the database
\* turns down
LogWaterManyUnguarded(tbl, uid, ids, when, fail) ==
    LET r == WaterLoop(tbl, uid, ids, when, 1, fail, 0)
    IN  IF ids = <<>> \/ r.raised
        THEN [plants |-> tbl, updated |-> 0, raised |-> TRUE]
        ELSE r

\* log_water_many(user_id, plant_ids, when): one connection, one commit
\* after the loop.  An exception leaves the with-block before conn.commit():
\* the transaction is rolled back and the exception reaches the caller.
LogWaterMany(tbl, uid, ids, when, fail) ==
    IF ids = <<>> THEN [plants |-> tbl, updated |-> 0, raised |-> FALSE]
    ELSE LET r == WaterLoop(tbl, uid, ids, when, 1, fail, 0)
         IN  IF r.raised THEN [plants |-> tbl, updated |-> 0, raised |-> TRUE]
             ELSE r

\* the ids of a set in ascending order
RECURSIVE Ascending(_)
Ascending(S) ==
    IF S = {} THEN <<>>
    ELSE LET m == CHOOSE x \in S : \A y \in S : x <= y
         IN  << m >> \o Ascending(S \ {m})

\* list_plants(user_id): (id, name) of the active plants, ORDER BY id
ListPlants(tbl, uid) ==
    LET ids == Ascending({pid \in DOMAIN tbl :
                            tbl[pid].user_id = uid /\ tbl[pid].active})
    IN  [i \in 1..Len(ids) |-> << ids[i], tbl[ids[i]].name >>]

\* get_plant_context(user_id, plant_id) found a row
HasPlantContext(tbl, uid, pid) == MatchesActive(tbl, uid, pid)

\* the schema init_db creates holds plants, reminder_state and plant_photos:
\* no table records a watering, so the service log has no entries
ServiceLog(tbl) == {}

----------------------------------------------------------------------------
(* bot.py: _build_today_payload *)

\* date() of an instant in a zone off seconds east of UTC
LocalDate(t, off) == (t + off) \div SecondsPerDay

Lower(c) == IF c = "A" THEN "a" ELSE IF c = "B" THEN "b"
            ELSE IF c = "C" THEN "c" ELSE c

\* name.lower()
LowerStr(name) == [i \in 1..Len(name) |-> Lower(name[i])]

\* truth value of a nullable number: None and 0 are false
Truthy(x) == x # NULL /\ x # 0

StatusOrder(status) ==
    IF status = "overdue" THEN 0 ELSE IF status = "due" THEN 1
    ELSE IF status = "setup" THEN 2 ELSE IF status = "ok" THEN 3 ELSE 9

\* (order[status], name.lower()) of a before that of b
KeyLess(a, b) ==
    \/ StatusOrder(a.status) < StatusOrder(b.status)
    \/ /\ StatusOrder(a.status) = StatusOrder(b.status)
       /\ LexLess(LowerStr(a.name), LowerStr(b.name))

\* items.sort(key=...): a stable sort
SortItems(items) ==
    [i \in 1..Len(items) |->
        items[CHOOSE j \in 1..Len(items) :
                Cardinality({k \in 1..Len(items) :
                    \/ KeyLess(items[k], items[j])
                    \/ (~KeyLess(items[j], items[k]) /\ k < j)}) = i - 1]]

\* the loop body reaches timedelta(days=int(norm_days)) for this row.
\* bot.py imports only datetime and date from datetime, so the name is
\* unbound there and the call raises NameError.
NeedsTimedelta(row) ==
    Truthy(row.water_every_days) /\ row.last_watered_at # NULL

\* the record appended for a row that takes the first branch
SetupItem(pid, name, row) ==
    [id |-> pid, name |-> name, status |-> "setup",
     norm_days |-> IF Truthy(row.water_every_days)
                   THEN row.water_every_days ELSE NULL,
     days_since |-> NULL, overdue_days |-> NULL, due_in_days |-> NULL]

\* the rows of list_plants for which get_plant_context then returns a row:
\* the plants of `gone` have been archived by another request in between
SeenRows(tbl, uid, gone) ==
    SelectSeq(ListPlants(tbl, uid),
              LAMBDA r : r[1] \notin gone /\ HasPlantContext(tbl, uid, r[1]))

\* _build_today_payload with setup_count incremented before the test of ctx
BuildTodayCountingListed(tbl, uid, t, gone) ==
    LET seen == SeenRows(tbl, uid, gone)
        items == [i \in 1..Len(seen) |->
                     SetupItem(seen[i][1], seen[i][2], tbl[seen[i][1]])]
    IN  IF \E i \in 1..Len(seen) : NeedsTimedelta(tbl[seen[i][1]])
        THEN [raised |-> TRUE, date |-> NULL, items |-> <<>>,
              summary |-> [overdue |-> 0, due |-> 0, setup |-> 0, total |-> 0]]
        ELSE [raised |-> FALSE, date |-> LocalDate(t, TZ_OFFSET),
              items |-> SortItems(items),
              summary |-> [overdue |-> 0, due |-> 0,
                           setup |-> Len(ListPlants(tbl, uid)),
                           total |-> Len(items)]]

\* _build_today_payload(user_id) at instant t. A row without context is
\* skipped before anything is counted or appended; setup_count is
\* incremented once for each row that takes the first branch, and
\* due_count and overdue_count only after line 947, which raises.
BuildTodayPayload(tbl, uid, t, gone) ==
    LET seen == SeenRows(tbl, uid, gone)
        items == [i \in 1..Len(seen) |->
                     SetupItem(seen[i][1], seen[i][2], tbl[seen[i][1]])]
        setup_count == Cardinality({ i \in 1..Len(seen) :
                                       ~NeedsTimedelta(tbl[seen[i][1]]) })
    IN  IF \E i \in 1..Len(seen) : NeedsTimedelta(tbl[seen[i][1]])
        THEN [raised |-> TRUE, date |-> NULL, items |-> <<>>,
              summary |-> [overdue |-> 0, due |-> 0, setup |-> 0, total |-> 0]]
        ELSE [raised |-> FALSE, date |-> LocalDate(t, TZ_OFFSET),
              items |-> SortItems(items),
              summary |-> [overdue |-> 0, due |-> 0, setup |-> setup_count,
                           total |-> Len(items)]]

----------------------------------------------------------------------------
(* bot.py: GET /api/today and POST /api/water *)

\* the ids a client may put in plant_ids: the three rows and an id no row has
PlantIds == 1..4

IdLists == UNION { [1..n -> PlantIds] : n \in 0..MaxIds }

TickStep == SecondsPerDay \div 4

\* initData issued by the platform for user u at instant t
IssuedFor(token, u, t) ==
    LET ps == << << K_auth_date, Itoa(t) >>, << K_user, UserJson(u) >> >>
    IN  Append(ps, << K_hash, PlatformHash(token, ps) >>)

\* the headers a client may send at instant t: fresh and stale initData of
\* each user, initData signed under another token, without hash, with a hash
\* outside ASCII, and no header
ApiPayloads(t) ==
    { IssuedFor(BOT_TOKEN, u, ad) :
        u \in Users, ad \in {t, t - ASGI_TTL_SECONDS - 1} }
    \cup { IssuedFor(OTHER_TOKEN, 1, t),
           << << K_auth_date, Itoa(t) >>, << K_user, UserJson(1) >> >>,
           << << K_user, UserJson(1) >>, << K_hash, << NonAscii >> >> >>,
           <<>> }

\* the response to a request the verifier turned down, nothing else done
Rejected(op, v) ==
    [op |-> op, v |-> v, status |-> v.status, calls |-> <<>>, ids |-> <<>>,
     fail |-> 0, when |-> NULL, returned |-> NULL, updated |-> NULL,
     body |-> <<>>]

\* the storage calls _build_today_payload makes: list_plants, then
\* get_plant_context row by row until one raises
TodayCalls(tbl, uid, gone) ==
    LET rows == ListPlants(tbl, uid)
        Raises(i) == rows[i][1] \notin gone /\ NeedsTimedelta(tbl[rows[i][1]])
        stop == IF \E i \in 1..Len(rows) : Raises(i)
                THEN CHOOSE i \in 1..Len(rows) :
                        Raises(i) /\ \A j \in 1..(i - 1) : ~Raises(j)
                ELSE Len(rows)
    IN  << "list_plants" >> \o [i \in 1..stop |-> "get_plant_context"]

\* api_today: the response to request r at instant t
ApiTodayResponse(tbl, r, t, gone) ==
    LET v == ValidateAndGetUserId(r.data, t)
        b == BuildTodayPayload(tbl, v.user_id, t, gone)
    IN  IF ~v.ok THEN Rejected("api_today", v)
        ELSE [op |-> "api_today", v |-> v,
              status |-> IF b.raised THEN 500 ELSE 200,
              calls |-> TodayCalls(tbl, v.user_id, gone), ids |-> <<>>,
              fail |-> 0, when |-> NULL, returned |-> NULL,
              updated |-> NULL, body |-> b]

\* every element of plant_ids is one int() accepts
AllConvertible(elems) == \A i \in 1..Len(elems) : IntOfJson(elems[i]).ok

\* [int(x) for x in plant_ids]
IntList(elems) == [i \in 1..Len(elems) |-> IntOfJson(elems[i]).id]

\* the answer of api_water when the list comprehension raises
BadPlantIds(v, elems) ==
    [op |-> "api_water", v |-> v, status |-> 400, calls |-> <<>>,
     ids |-> <<>>, fail |-> 0, when |-> NULL, returned |-> NULL,
     updated |-> NULL, body |-> <<>>, plant_ids |-> elems]

\* api_water without the except branch: the elements int() rejects are left
\* out and the rest is watered
ApiWaterSkippingBad(tbl, r, t) ==
    LET v == ValidateAndGetUserId(r.data, t)
        good == SelectSeq(r.plant_ids, LAMBDA x : IntOfJson(x).ok)
        ids == IntList(good)
        w == LogWaterMany(tbl, v.user_id, ids, t, 0)
    IN  IF ~v.ok THEN [resp |-> Rejected("api_water", v), plants |-> tbl]
        ELSE [resp |->
                [op |-> "api_water", v |-> v, status |-> 200,
                 calls |-> << "log_water_many" >>, ids |-> ids,
                 fail |-> 0, when |-> t, returned |-> w.updated,
                 updated |-> Len(ids), body |-> <<>>],
              plants |-> w.plants]

\* api_water: the response to request r at instant t and the table after it.
\* plant_ids is converted as a whole before log_water_many is called. The
\* body's "updated" is len(plant_ids); the value log_water_many returns is
\* dropped.
ApiWaterOutcome(tbl, r, t) ==
    LET v == ValidateAndGetUserId(r.data, t)
        ids == IntList(r.plant_ids)
        w == LogWaterMany(tbl, v.user_id, ids, t, r.fail)
    IN  IF ~v.ok THEN [resp |-> Rejected("api_water", v), plants |-> tbl]
        ELSE IF ~AllConvertible(r.plant_ids)
        THEN [resp |-> BadPlantIds(v, r.plant_ids), plants |-> tbl]
        ELSE [resp |->
                [op |-> "api_water", v |-> v,
                 status |-> IF w.raised THEN 500 ELSE 200,
                 calls |-> << "log_water_many" >>, ids |-> ids,
                 fail |-> r.fail, when |-> t,
                 returned |-> IF w.raised THEN NULL ELSE w.updated,
                 updated |-> IF w.raised THEN NULL ELSE Len(ids),
                 body |-> <<>>],
              plants |-> w.plants]

Idle == req.op = "none" /\ resp.op = "none"

\* a GET /api/today arrives
ArriveToday ==
    /\ Idle
    /\ \E data \in ApiPayloads(now) :
         req' = [op |-> "api_today", data |-> data, plant_ids |-> <<>>,
                 fail |-> 0]
    /\ UNCHANGED <<now, init_data, resp, plants, user_data, env, plant_photos>>

\* a POST /api/water arrives; fail names the statement of log_water_many at
\* which the database will raise, 0 when none does
ArriveWater ==
    /\ Idle
    /\ \E data \in ApiPayloads(now), ids \in IdLists :
         \E fail \in 0..Len(ids) :
            req' = [op |-> "api_water", data |-> data,
                    plant_ids |-> [i \in 1..Len(ids) |-> Itoa(ids[i])],
                    fail |-> fail]
    /\ UNCHANGED <<now, init_data, resp, plants, user_data, env, plant_photos>>

ApiToday ==
    /\ req.op = "api_today"
    /\ resp' = ApiTodayResponse(plants, req, now, {})
    /\ req' = NoReq
    /\ init_data' = req.data
    /\ UNCHANGED <<now, plants, user_data, env, plant_photos>>

ApiWater ==
    /\ req.op = "api_water"
    /\ LET o == ApiWaterOutcome(plants, req, now)
       IN  resp' = o.resp /\ plants' = o.plants
    /\ req' = NoReq
    /\ init_data' = req.data
    /\ UNCHANGED <<now, user_data, env, plant_photos>>

\* the response leaves
Deliver ==
    /\ req.op = "none"
    /\ resp.op # "none"
    /\ resp' = NoResp
    /\ init_data' = <<>>
    /\ UNCHANGED <<now, req, plants, user_data, env, plant_photos>>

\* time passes between requests
Tick ==
    /\ Idle
    /\ now < T0 + MaxTicks * TickStep
    /\ now' = now + TickStep
    /\ UNCHANGED <<init_data, req, resp, plants, user_data, env, plant_photos>>

N_a == << "a" >>

N_B == << "B" >>

N_c == << "c" >>

\* the table the requests start from: user 1 owns plant 1 (every day, never
\* watered) and the archived plant 2, user 2 owns plant 3
InitPlants ==
    << Row(1, N_B, 1, NULL, TRUE),
       Row(1, N_a, NULL, NULL, FALSE),
       Row(2, N_c, NULL, NULL, TRUE) >>

InitApi ==
    /\ now = T0
    /\ init_data = <<>>
    /\ req = NoReq
    /\ resp = NoResp
    /\ plants = InitPlants
    /\ user_data = NoUserData
    /\ env = UtcEnv
    /\ plant_photos = <<>>

NextApi == ArriveToday \/ ArriveWater \/ ApiToday \/ ApiWater \/ Deliver \/ Tick

SpecApi == InitApi /\ [][NextApi]_vars

----------------------------------------------------------------------------
(* The mini-application endpoints and log_water_many *)

IsApi(r) == r.op \in {"api_today", "api_water"}

\* row pid of tbl is an active plant of user uid
OwnedActive(tbl, uid, pid) ==
    pid \in DOMAIN tbl /\ tbl[pid].user_id = uid /\ tbl[pid].active

InList(ids, pid) == \E i \in 1..Len(ids) : ids[i] = pid

\* C3: on GET /api/today and POST /api/water, a request whose initData the
\* verifier does not accept is answered with HTTP 401, and no storage
\* operation runs for it: nothing is read and no row changes.
C3_RejectedWith401AndUntouched ==
    [][ ((ApiToday \/ ApiWater) /\ ~resp'.v.ok)
          => (resp'.status = 401 /\ resp'.calls = <<>> /\ plants' = plants) ]_vars

\* C3: a request whose hash field is not ASCII has been turned down with 500:
\* hmac.compare_digest raised TypeError instead of reporting a mismatch.
C3_RejectedWith500 ==
    /\ IsApi(resp)
    /\ ~resp.v.ok
    /\ resp.status = 500
    /\ resp.calls = <<>>

\* C7: a log_water_many call in which the database raises nothing answers
\* normally, leaves every row that is not an active plant of the caller as it
\* was, listed or not, and sets last_watered_at of every listed active plant
\* of the caller to `when`.
C7_SkipsSilently ==
    [][ (ApiWater /\ resp'.v.ok /\ req.fail = 0)
          => /\ resp'.status = 200
             /\ \A pid \in DOMAIN plants :
                  IF OwnedActive(plants, resp'.v.user_id, pid)
                     /\ InList(IntList(req.plant_ids), pid)
                  THEN plants'[pid] =
                         [plants[pid] EXCEPT !.last_watered_at = resp'.when]
                  ELSE plants'[pid] = plants[pid] ]_vars

\* C7: a call listing an active plant of the caller next to an id that is
\* another user's, archived or absent has answered 200; the former carries
\* `when`, and no row of the second kind does.
C7_Witness ==
    /\ resp.op = "api_water"
    /\ resp.v.ok
    /\ resp.status = 200
    /\ \E i, j \in 1..Len(resp.ids) :
         /\ OwnedActive(plants, resp.v.user_id, resp.ids[i])
         /\ plants[resp.ids[i]].last_watered_at = resp.when
         /\ ~OwnedActive(plants, resp.v.user_id, resp.ids[j])
    /\ \A pid \in DOMAIN plants :
         ~OwnedActive(plants, resp.v.user_id, pid)
            => plants[pid].last_watered_at = NULL

\* the active plants of the caller that the answered call has set to `when`
ActuallySet(r, tbl) ==
    { pid \in DOMAIN tbl :
        /\ InList(r.ids, pid)
        /\ OwnedActive(tbl, r.v.user_id, pid)
        /\ tbl[pid].last_watered_at = r.when }

\* C8: the count log_water_many returns and the `updated` field of the
\* POST /api/water response both equal the number of active plants of the
\* caller whose last_watered_at the call has set.
C8_CountIsActuallySet ==
    (resp.op = "api_water" /\ resp.v.ok /\ resp.status = 200)
        => /\ resp.returned = Cardinality(ActuallySet(resp, plants))
           /\ resp.updated = Cardinality(ActuallySet(resp, plants))

\* C8: a call that set nothing has answered with a positive `updated`.
C8_CountsSkippedIds ==
    /\ resp.op = "api_water"
    /\ resp.v.ok
    /\ resp.status = 200
    /\ ActuallySet(resp, plants) = {}
    /\ resp.updated > 0

\* C9: every row whose last_watered_at is t has a service-log entry for that
\* row with timestamp t.
C9_EveryWateringLogged ==
    \A pid \in DOMAIN plants :
        plants[pid].last_watered_at # NULL
            => \E e \in ServiceLog(plants) :
                  e.item = pid /\ e.when = plants[pid].last_watered_at

\* C9: a call has set a row's last_watered_at and the log holds nothing.
C9_WateredAndNoEntry ==
    /\ resp.op = "api_water"
    /\ ActuallySet(resp, plants) # {}
    /\ ServiceLog(plants) = {}

\* C10: when the statement for one id of a batch raises, the call still
\* answers normally, the listed active plants of the caller at the other
\* positions are set to `when`, and the returned count leaves the failed
\* statement out.
C10_FailureKeepsTheRest ==
    [][ (ApiWater /\ resp'.v.ok /\ req.fail # 0)
          => /\ resp'.status = 200
             /\ \A i \in 1..Len(req.plant_ids) :
                  (i # req.fail
                   /\ OwnedActive(plants, resp'.v.user_id, IntList(req.plant_ids)[i]))
                     => plants'[IntList(req.plant_ids)[i]].last_watered_at = resp'.when
             /\ resp'.returned < Len(req.plant_ids) ]_vars

\* C10: the second statement of a batch raised after the first had updated
\* an active plant of the caller: the call failed as a whole and the first
\* update is gone.
C10_WholeBatchLost ==
    /\ resp.op = "api_water"
    /\ resp.v.ok
    /\ resp.status = 500
    /\ resp.fail = 2
    /\ OwnedActive(plants, resp.v.user_id, resp.ids[1])
    /\ plants[resp.ids[1]].last_watered_at # resp.when

----------------------------------------------------------------------------
(* storage.py: set_norm and compute_today *)

\* the WHERE clause of set_norm without its user_id test
SetNormAnyOwner(tbl, uid, pid, days) ==
    [p \in DOMAIN tbl |->
        IF p = pid THEN [tbl[p] EXCEPT !.water_every_days = days] ELSE tbl[p]]

\* set_norm(user_id, plant_id, days): WHERE id=%s AND user_id=%s
SetNorm(tbl, uid, pid, days) ==
    [p \in DOMAIN tbl |->
        IF p = pid /\ tbl[p].user_id = uid
        THEN [tbl[p] EXCEPT !.water_every_days = days]
        ELSE tbl[p]]

\* the orders in which the SELECT of compute_today, which has no ORDER BY,
\* may return the active rows of uid
FetchOrders(tbl, uid) ==
    LET S == { pid \in DOMAIN tbl : tbl[pid].user_id = uid /\ tbl[pid].active }
    IN  { f \in [1..Cardinality(S) -> S] :
            \A i, j \in 1..Cardinality(S) : f[i] = f[j] => i = j }

\* last.date() + timedelta(days=int(every)), last read in the zone at off
DueDate(row, off) == LocalDate(row.last_watered_at, off) + row.water_every_days

\* `not every or not last`
IsUnknownRow(row) == ~Truthy(row.water_every_days) \/ row.last_watered_at = NULL

\* compute_today(user_id, today) over the rows fetched in `order`
ComputeToday(tbl, uid, today, order, off) ==
    LET ov == SelectSeq(order, LAMBDA pid :
                  ~IsUnknownRow(tbl[pid]) /\ DueDate(tbl[pid], off) < today)
        td == SelectSeq(order, LAMBDA pid :
                  ~IsUnknownRow(tbl[pid]) /\ DueDate(tbl[pid], off) = today)
        un == SelectSeq(order, LAMBDA pid : IsUnknownRow(tbl[pid]))
    IN  [overdue |-> [i \in 1..Len(ov) |->
                        << tbl[ov[i]].name, today - DueDate(tbl[ov[i]], off) >>],
         today_list |-> [i \in 1..Len(td) |-> tbl[td[i]].name],
         unknown |-> [i \in 1..Len(un) |-> tbl[un[i]].name]]

----------------------------------------------------------------------------
(* storage.py: the other operations on plants *)

\* WHERE id=%s AND user_id=%s
MatchesOwner(tbl, uid, pid) == pid \in DOMAIN tbl /\ tbl[pid].user_id = uid

\* add_plant(user_id, name): INSERT ... ON CONFLICT (user_id, name) DO
\* NOTHING; the new row takes the next id.  (The id a conflicting insert
\* uses up is not modelled.)
AddPlant(tbl, uid, name) ==
    IF name = <<>> THEN tbl
    ELSE IF \E p \in DOMAIN tbl : tbl[p].user_id = uid /\ tbl[p].name = name
    THEN tbl
    ELSE Append(tbl, Row(uid, name, NULL, NULL, TRUE))

\* set_active(user_id, plant_id, active)
SetActive(tbl, uid, pid, active) ==
    IF MatchesOwner(tbl, uid, pid)
    THEN [tbl EXCEPT ![pid].active = active]
    ELSE tbl

\* the UPDATE of rename_plant would break UNIQUE(user_id, name)
RenameConflicts(tbl, uid, pid, new) ==
    \E p \in DOMAIN tbl : p # pid /\ tbl[p].user_id = uid /\ tbl[p].name = new

\* rename_plant(user_id, plant_id, new_name): the table after it and what it
\* returns
RenamePlant(tbl, uid, pid, new) ==
    IF new = <<>> \/ ~MatchesActive(tbl, uid, pid) \/ RenameConflicts(tbl, uid, pid, new)
    THEN [plants |-> tbl, returned |-> FALSE]
    ELSE [plants |-> [tbl EXCEPT ![pid].name = new], returned |-> TRUE]

\* list_plants_archived(user_id)
ListPlantsArchived(tbl, uid) ==
    LET ids == Ascending({pid \in DOMAIN tbl :
                            tbl[pid].user_id = uid /\ ~tbl[pid].active})
    IN  [i \in 1..Len(ids) |-> << ids[i], tbl[ids[i]].name >>]

\* get_norms(user_id): the rows it returns, as a set (their order is that of
\* the database's collation of name)
GetNorms(tbl, uid) ==
    { << tbl[pid].name, tbl[pid].water_every_days >> :
        pid \in { p \in DOMAIN tbl : /\ tbl[p].user_id = uid
                                      /\ tbl[p].active
                                      /\ tbl[p].water_every_days # NULL } }

\* get_plant_context(user_id, plant_id): the row, or the empty tuple when
\* fetchone() finds none
GetPlantContext(tbl, uid, pid) ==
    IF MatchesActive(tbl, uid, pid)
    THEN << tbl[pid].name, tbl[pid].water_every_days, tbl[pid].last_watered_at >>
    ELSE <<>>

----------------------------------------------------------------------------
(* bot.py: the chat handlers behind POST /webhook.  /start and /db touch
   neither user_data nor a table and are left out; the process runs without
   OPENAI_API_KEY, so the analysis of a photo reads nothing. *)

MENU_TODAY == << "Plan", " ", "na", " ", "segodnya" >>

MENU_WATER == << "Otmetit", " ", "poliv" >>

MENU_PHOTO == << "Sprosit", " ", "pro", " ", "rastenie" >>

MENU_PLANTS == << "Posmotret", " ", "vse", " ", "rasteniya" >>

MENU_NORMS == << "Uznat", " ", "chastotu", " ", "poliva" >>

CB_GO_WATER == "go:water"

CB_W_TOGGLE == "w:tg"

CB_W_DONE == "w:dn"

CB_W_CANCEL == "w:cn"

CB_P_TOGGLE == "p:ch"

CB_P_CANCEL == "p:cn"

CB_A_RUN == "an:run"

CB_A_CANCEL == "an:cn"

\* str.strip() for the space character
RECURSIVE Strip(_)
Strip(s) ==
    IF s = <<>> THEN s
    ELSE IF Head(s) = " " THEN Strip(Tail(s))
    ELSE IF s[Len(s)] = " " THEN Strip(SubSeq(s, 1, Len(s) - 1))
    ELSE s

\* str.split(sep): the pieces between the occurrences of sep
RECURSIVE SplitOn(_, _)
SplitOn(s, sep) ==
    IF \E i \in 1..Len(s) : s[i] = sep
    THEN LET n == CHOOSE i \in 1..Len(s) :
                     s[i] = sep /\ \A j \in 1..(i - 1) : s[j] # sep
         IN  << SubSeq(s, 1, n - 1) >> \o SplitOn(SubSeq(s, n + 1, Len(s)), sep)
    ELSE << s >>

\* str.split(): the runs of characters between spaces
SplitWords(s) == SelectSeq(SplitOn(s, " "), LAMBDA w : w # <<>>)

\* the elements of seq, first occurrences only
Dedup(seq) ==
    LET keep == Ascending({ k \in 1..Len(seq) :
                              \A j \in 1..(k - 1) : seq[j] # seq[k] })
    IN  [i \in 1..Len(keep) |-> seq[keep[i]]]

\* _parse_indices_csv(text, n_rows)
ParseIndicesCsv(text, n) ==
    LET parts == SplitOn(SelectSeq(text, LAMBDA c : c # " "), ",")
        nums == SelectSeq(parts, LAMBDA q :
                    IsDigit(q) /\ 0 <= ParseInt(q) - 1 /\ ParseInt(q) - 1 < n)
    IN  Dedup([i \in 1..Len(nums) |-> ParseInt(nums[i]) - 1])

NoResult == [overdue |-> <<>>, today_list |-> <<>>, unknown |-> <<>>]

\* what a handler leaves behind: the user's user_data, the table, the storage
\* calls it made, and what it computed or wrote
Out(ud, tbl, calls, result, ids, when) ==
    [ud |-> ud, plants |-> tbl, calls |-> calls, result |-> result,
     ids |-> ids, when |-> when, reply |-> "none"]

\* the same, with the UX text the handler sent by reply_text or
\* edit_message_text
Reply(o, text) == [o EXCEPT !.reply = text]

\* user_data.clear() followed by user_data[flag] = True
OpenFlow(flag) == [Cleared EXCEPT !.flags = @ \cup {flag}]

\* the handler returned, or raised, before it replied or wrote anything
Quiet(ud, tbl) == Out(ud, tbl, <<>>, NoResult, <<>>, NULL)

\* a command that lists rows and opens a flow unless there are none
OpenOver(tbl, ud, rows, call, flag, empty, prompt) ==
    IF rows = <<>>
    THEN Reply(Out(ud, tbl, << call >>, NoResult, <<>>, NULL), empty)
    ELSE Reply(Out(OpenFlow(flag), tbl, << call >>, NoResult, <<>>, NULL),
               prompt)

\* a /today that stamps the rows it read as watered at the time of the call
CmdTodayStamping(tbl, ud, u, t, order, e) ==
    Out(ud, LogWaterMany(tbl, u, order, t, 0).plants, << "compute_today" >>,
        ComputeToday(tbl, u, LocalDate(t, e.proc), order, e.db), <<>>, NULL)

\* cmd_today
CmdTodayOut(tbl, ud, u, t, order, e) ==
    Reply(Out(ud, tbl, << "compute_today" >>,
              ComputeToday(tbl, u, LocalDate(t, e.proc), order, e.db),
              <<>>, NULL),
          "today")

\* cmd_water
CmdWaterOut(tbl, ud, u) ==
    LET rows == ListPlants(tbl, u)
    IN  IF rows = <<>>
        THEN Reply(Out(ud, tbl, << "list_plants" >>, NoResult, <<>>, NULL),
                   "EMPTY_LIST")
        ELSE Reply(Out([OpenFlow("await_water_buttons")
                           EXCEPT !.water_rows_cache = rows],
                       tbl, << "list_plants" >>, NoResult, <<>>, NULL),
                   "water_screen")

\* cmd_set_norms
CmdSetNormsOut(tbl, ud, u) ==
    OpenOver(tbl, ud, ListPlants(tbl, u), "list_plants", "await_norm",
             "EMPTY_LIST", "set_norms_prompt")

\* cmd_add_plant
CmdAddPlantOut(tbl) == Reply(Quiet(OpenFlow("await_add"), tbl), "ADD_PROMPT")

\* cmd_rename
CmdRenameOut(tbl, ud, u) ==
    OpenOver(tbl, ud, ListPlants(tbl, u), "list_plants", "await_rename",
             "EMPTY_LIST", "rename_prompt")

\* cmd_archive
CmdArchiveOut(tbl, ud, u) ==
    OpenOver(tbl, ud, ListPlants(tbl, u), "list_plants", "await_archive",
             "ARCHIVE_EMPTY", "archive_prompt")

\* cmd_restore
CmdRestoreOut(tbl, ud, u) ==
    OpenOver(tbl, ud, ListPlantsArchived(tbl, u), "list_plants_archived",
             "await_restore", "NO_ARCHIVED", "restore_prompt")

\* cmd_photo that sets its flag without user_data.clear()
CmdPhotoKeeping(tbl, ud, u) ==
    IF ListPlants(tbl, u) = <<>>
    THEN Reply(Out(ud, tbl, << "list_plants" >>, NoResult, <<>>, NULL),
               "EMPTY_LIST")
    ELSE Reply(Out([ud EXCEPT !.flags = @ \cup {"await_photo_pick"}], tbl,
                   << "list_plants" >>, NoResult, <<>>, NULL),
               "PHOTO_CHOOSE")

\* cmd_photo
CmdPhotoOut(tbl, ud, u) ==
    OpenOver(tbl, ud, ListPlants(tbl, u), "list_plants", "await_photo_pick",
             "EMPTY_LIST", "PHOTO_CHOOSE")

\* cmd_plants
CmdPlantsOut(tbl, ud, u) ==
    Reply(Out(ud, tbl, << "list_plants" >>, NoResult, <<>>, NULL),
          IF ListPlants(tbl, u) = <<>> THEN "EMPTY_LIST" ELSE "plants")

\* cmd_norms
CmdNormsOut(tbl, ud, u) ==
    Reply(Out(ud, tbl, << "get_norms" >>, NoResult, <<>>, NULL),
          IF GetNorms(tbl, u) = {} THEN "norms_none" ELSE "norms")

\* cmd_archived
CmdArchivedOut(tbl, ud, u) ==
    Reply(Out(ud, tbl, << "list_plants_archived" >>, NoResult, <<>>, NULL),
          IF ListPlantsArchived(tbl, u) = <<>>
          THEN "NO_ARCHIVED" ELSE "archived_list")

\* on_callback without its tests of await_water_buttons
OnCallbackIgnoringFlag(tbl, ud, u, data, t) ==
    IF data.tag = CB_GO_WATER THEN CmdWaterOut(tbl, ud, u)
    ELSE IF data.tag = CB_W_TOGGLE
    THEN IF ~PyIntText(data.arg)
         THEN Quiet(ud, tbl)
         ELSE LET pid == PyIntValue(data.arg)
                  sel == IF pid \in ud.water_sel_ids
                         THEN ud.water_sel_ids \ {pid}
                         ELSE ud.water_sel_ids \cup {pid}
                  cached == ud.water_rows_cache # <<>>
              IN  Out([ud EXCEPT !.water_sel_ids = sel,
                                 !.water_rows_cache =
                                     IF cached THEN @ ELSE ListPlants(tbl, u)],
                      tbl,
                      IF cached THEN <<>> ELSE << "list_plants" >>,
                      NoResult, <<>>, NULL)
    ELSE IF data.tag = CB_W_CANCEL
    THEN Quiet(Cleared, tbl)
    ELSE IF data.tag = CB_W_DONE
    THEN IF ud.water_sel_ids = {}
         THEN Quiet(ud, tbl)
         ELSE LET ids == Ascending(ud.water_sel_ids)
              IN  Out(Cleared, LogWaterMany(tbl, u, ids, t, 0).plants,
                      << "log_water_many" >>, NoResult, ids, t)
    ELSE Quiet(ud, tbl)

\* on_callback for the callback data (tag, arg)
OnCallbackOut(tbl, ud, u, data, t) ==
    IF data.tag = CB_GO_WATER THEN CmdWaterOut(tbl, ud, u)
    ELSE IF data.tag = CB_W_TOGGLE
    THEN IF "await_water_buttons" \notin ud.flags \/ ~PyIntText(data.arg)
         THEN Quiet(ud, tbl)
         ELSE LET pid == PyIntValue(data.arg)
                  sel == IF pid \in ud.water_sel_ids
                         THEN ud.water_sel_ids \ {pid}
                         ELSE ud.water_sel_ids \cup {pid}
                  cached == ud.water_rows_cache # <<>>
              IN  Reply(Out([ud EXCEPT !.water_sel_ids = sel,
                                       !.water_rows_cache =
                                           IF cached THEN @
                                           ELSE ListPlants(tbl, u)],
                            tbl,
                            IF cached THEN <<>> ELSE << "list_plants" >>,
                            NoResult, <<>>, NULL),
                        "water_screen")
    ELSE IF data.tag = CB_W_CANCEL
    THEN Reply(Quiet(Cleared, tbl), "CANCEL_OK")
    ELSE IF data.tag = CB_W_DONE
    THEN IF "await_water_buttons" \notin ud.flags
         THEN Quiet(ud, tbl)
         ELSE IF ud.water_sel_ids = {}
         THEN Reply(Quiet(ud, tbl), "choose_one")
         ELSE LET ids == Ascending(ud.water_sel_ids)
              IN  Reply(Out(Cleared, LogWaterMany(tbl, u, ids, t, 0).plants,
                            << "log_water_many" >>, NoResult, ids, t),
                        "WATER_DONE")
    ELSE IF data.tag = CB_P_CANCEL
    THEN Reply(Quiet(Cleared, tbl), "CANCEL_OK")
    ELSE IF data.tag = CB_P_TOGGLE
    THEN IF "await_photo_pick" \notin ud.flags \/ ~PyIntText(data.arg)
         THEN Quiet(ud, tbl)
         ELSE Reply(Quiet([OpenFlow("await_photo_upload")
                             EXCEPT !.photo_plant_id = PyIntValue(data.arg)],
                          tbl),
                    "PHOTO_SEND")
    ELSE IF data.tag = CB_A_CANCEL
    THEN Reply(Quiet(ud, tbl), "CANCEL_OK")
    ELSE IF data.tag = CB_A_RUN
    THEN IF ~PyIntText(data.arg)
         THEN Quiet(ud, tbl)
         ELSE Reply(Quiet(ud, tbl), "ANALYZE_NO_KEY")
    ELSE Quiet(ud, tbl)

\* text.split(maxsplit=1) of a stripped text: the first word and the rest
SplitFirst(text) ==
    LET words == SplitWords(text)
    IN  IF Len(words) < 2 THEN words
        ELSE << words[1],
                Strip(SubSeq(text, Len(words[1]) + 1, Len(text))) >>

\* set_active(user_id, pid, active) for each pid of ids in turn
RECURSIVE SetActiveEach(_, _, _, _)
SetActiveEach(tbl, uid, ids, active) ==
    IF ids = <<>> THEN tbl
    ELSE SetActiveEach(SetActive(tbl, uid, Head(ids), active), uid,
                       Tail(ids), active)

\* the rows of `rows` at the indices _parse_indices_csv reads in text
PickedIds(rows, text) ==
    LET idxs == ParseIndicesCsv(text, Len(rows))
    IN  [i \in 1..Len(idxs) |-> rows[idxs[i] + 1][1]]

\* the branch of handle_text for the flow that is open
FlowTextOut(tbl, ud, u, text, t) ==
    LET rows == ListPlants(tbl, u)
        gone == ListPlantsArchived(tbl, u)
        first == SplitFirst(text)
        parts == SplitWords(text)
    IN  IF "await_add" \in ud.flags
        THEN IF text = <<>>
             THEN Reply(Quiet(ud, tbl), "ADD_EMPTY")
             ELSE Reply(Out(Cleared, AddPlant(tbl, u, text),
                            << "add_plant" >>, NoResult, <<>>, NULL),
                        "ADD_DONE")
        ELSE IF "await_rename" \in ud.flags
        THEN IF Len(first) < 2 \/ ~StrIsDigit(first[1])
             THEN Reply(Quiet(ud, tbl), "RENAME_BAD_FORMAT")
             ELSE IF ~IsDigit(first[1])
             THEN Quiet(ud, tbl)
             ELSE IF ~(ParseInt(first[1]) - 1 \in 0..(Len(rows) - 1))
             THEN Reply(Out(ud, tbl, << "list_plants" >>, NoResult, <<>>,
                            NULL),
                        "RENAME_NO_SUCH")
             ELSE LET r == RenamePlant(tbl, u, rows[ParseInt(first[1])][1],
                                       first[2])
                  IN  Reply(Out(Cleared, r.plants,
                                << "list_plants", "rename_plant" >>,
                                NoResult, <<>>, NULL),
                            IF r.returned THEN "RENAME_DONE"
                            ELSE "RENAME_FAIL")
        ELSE IF "await_norm" \in ud.flags
        THEN IF Len(parts) # 2 \/ ~StrIsDigit(parts[1])
                \/ ~StrIsDigit(parts[2])
             THEN Reply(Quiet(ud, tbl), "NORM_BAD_FORMAT")
             ELSE IF ~IsDigit(parts[1]) \/ ~IsDigit(parts[2])
             THEN Quiet(ud, tbl)
             ELSE IF ~(ParseInt(parts[1]) - 1 \in 0..(Len(rows) - 1))
             THEN Reply(Out(ud, tbl, << "list_plants" >>, NoResult, <<>>,
                            NULL),
                        "NORM_NO_SUCH")
             ELSE Reply(Out(Cleared,
                            SetNorm(tbl, u, rows[ParseInt(parts[1])][1],
                                    ParseInt(parts[2])),
                            << "list_plants", "set_norm" >>, NoResult, <<>>,
                            NULL),
                        "NORM_DONE")
        ELSE IF "await_water_buttons" \in ud.flags
        THEN LET ids == PickedIds(rows, text)
             IN  IF ids # <<>>
                 THEN Reply(Out(Cleared,
                                LogWaterMany(tbl, u, ids, t, 0).plants,
                                << "list_plants", "log_water_many" >>,
                                NoResult, ids, t),
                            "WATER_DONE")
                 ELSE Reply(Out(ud, tbl, << "list_plants" >>, NoResult,
                                <<>>, NULL),
                            "WATER_BAD")
        ELSE IF "await_archive" \in ud.flags
        THEN LET ids == PickedIds(rows, text)
             IN  IF ids = <<>>
                 THEN Reply(Out(Cleared, tbl, << "list_plants" >>, NoResult,
                                <<>>, NULL),
                            "WATER_BAD")
                 ELSE Reply(Out(Cleared, SetActiveEach(tbl, u, ids, FALSE),
                                << "list_plants" >>
                                    \o [i \in 1..Len(ids) |-> "set_active"],
                                NoResult, ids, NULL),
                            "archive_done")
        ELSE IF "await_restore" \in ud.flags
        THEN LET ids == PickedIds(gone, text)
             IN  IF ids = <<>>
                 THEN Reply(Out(Cleared, tbl, << "list_plants_archived" >>,
                                NoResult, <<>>, NULL),
                            "RESTORE_BAD")
                 ELSE Reply(Out(Cleared, SetActiveEach(tbl, u, ids, TRUE),
                                << "list_plants_archived" >>
                                    \o [i \in 1..Len(ids) |-> "set_active"],
                                NoResult, ids, NULL),
                            "RESTORE_DONE")
        ELSE IF "await_photo_upload" \in ud.flags
        THEN Reply(Quiet(ud, tbl), "PHOTO_EXPECTED")
        ELSE Quiet(ud, tbl)

\* handle_text that tests the menu labels in every state
HandleTextMenuFirst(tbl, ud, u, raw, t, order, e) ==
    LET text == Strip(raw)
    IN  IF text = MENU_TODAY THEN CmdTodayOut(tbl, ud, u, t, order, e)
        ELSE IF text = MENU_WATER THEN CmdWaterOut(tbl, ud, u)
        ELSE IF text = MENU_PHOTO THEN CmdPhotoOut(tbl, ud, u)
        ELSE IF text = MENU_PLANTS THEN CmdPlantsOut(tbl, ud, u)
        ELSE IF text = MENU_NORMS THEN CmdNormsOut(tbl, ud, u)
        ELSE FlowTextOut(tbl, ud, u, text, t)

\* handle_text: the menu labels when no key of user_data starts with await_,
\* then the branch of the open flow
HandleTextOut(tbl, ud, u, raw, t, order, e) ==
    LET text == Strip(raw)
    IN  IF ud.flags = {} /\ text = MENU_TODAY
        THEN CmdTodayOut(tbl, ud, u, t, order, e)
        ELSE IF ud.flags = {} /\ text = MENU_WATER
        THEN CmdWaterOut(tbl, ud, u)
        ELSE IF ud.flags = {} /\ text = MENU_PHOTO
        THEN CmdPhotoOut(tbl, ud, u)
        ELSE IF ud.flags = {} /\ text = MENU_PLANTS
        THEN CmdPlantsOut(tbl, ud, u)
        ELSE IF ud.flags = {} /\ text = MENU_NORMS
        THEN CmdNormsOut(tbl, ud, u)
        ELSE FlowTextOut(tbl, ud, u, text, t)

\* add_plant_photo(user_id, plant_id, tg_file_id, ...): plant_id REFERENCES
\* plants(id), so the INSERT raises when no such plant exists
AddPlantPhoto(photos, tbl, uid, pid, file) ==
    IF pid \in DOMAIN tbl
    THEN [raised |-> FALSE,
          photos |-> Append(photos, [user_id |-> uid, plant_id |-> pid,
                                     tg_file_id |-> file])]
    ELSE [raised |-> TRUE, photos |-> photos]

\* handle_photo without user_data.clear() after add_plant_photo
HandlePhotoKeeping(photos, tbl, ud, u, file) ==
    IF "await_photo_upload" \notin ud.flags
    THEN [ud |-> ud, photos |-> photos, calls |-> <<>>, reply |-> "none"]
    ELSE IF ud.photo_plant_id = NULL \/ ud.photo_plant_id = 0
    THEN [ud |-> Cleared, photos |-> photos, calls |-> <<>>,
          reply |-> "CANCEL_OK"]
    ELSE [ud |-> ud,
          photos |-> AddPlantPhoto(photos, tbl, u, ud.photo_plant_id,
                                   file).photos,
          calls |-> << "add_plant_photo" >>, reply |-> "PHOTO_SAVED"]

\* handle_photo: user_data, the plant_photos table, the storage calls and the
\* reply it leaves
HandlePhotoOut(photos, tbl, ud, u, file) ==
    IF "await_photo_upload" \notin ud.flags
    THEN [ud |-> ud, photos |-> photos, calls |-> <<>>, reply |-> "none"]
    ELSE IF ud.photo_plant_id = NULL \/ ud.photo_plant_id = 0
    THEN [ud |-> Cleared, photos |-> photos, calls |-> <<>>,
          reply |-> "CANCEL_OK"]
    ELSE LET a == AddPlantPhoto(photos, tbl, u, ud.photo_plant_id, file)
         IN  IF a.raised
             THEN [ud |-> ud, photos |-> photos,
                   calls |-> << "add_plant_photo" >>, reply |-> "none"]
             ELSE [ud |-> Cleared, photos |-> a.photos,
                   calls |-> << "add_plant_photo" >>,
                   reply |-> "PHOTO_SAVED"]

----------------------------------------------------------------------------
(* bot.py: POST /webhook.  telegram_webhook hands whatever update object the
   request body holds to the handlers; it looks at no header and no secret,
   so the model records who sent the request only as a trace. *)

\* who may POST to /webhook: the chat platform, after it authenticated the
\* user the update names, and anyone else who knows the URL
Senders == {"platform", "forged"}

\* the users who chat during a run; user 2 only owns a row
ChatUsers == {1}

\* the days before `now` at which the plant of the chatting user may have
\* been watered last
DaysAgo == {0, 7, 10}

MaxDaysAgo == 10

\* the texts a chat message may carry
Texts ==
    { << "1", " ", "0" >>, << "1", " ", "1" >>, << "1", " ", "7" >>,
      << "2", " ", "7" >>,
      << "1" >>, << "x" >>, MENU_TODAY, MENU_WATER }

Command(name) == [kind |-> "command", text |-> << name >>, tag |-> "", arg |-> <<>>]

TextMessage(text) == [kind |-> "text", text |-> text, tag |-> "", arg |-> <<>>]

Callback(tag, arg) == [kind |-> "callback", text |-> <<>>, tag |-> tag, arg |-> arg]

\* the callback data an update may carry: the platform delivers only the
\* buttons the bot has shown to the user, a self-made update carries anything
CallbackChoices(tbl, sender, u) ==
    { Callback(CB_GO_WATER, <<>>), Callback(CB_W_DONE, <<>>),
      Callback(CB_W_CANCEL, <<>>) }
    \cup { Callback(CB_W_TOGGLE, Itoa(ListPlants(tbl, u)[i][1])) :
             i \in 1..Len(ListPlants(tbl, u)) }
    \cup IF sender = "forged"
         THEN { Callback(CB_W_TOGGLE, << "3" >>), Callback(CB_W_TOGGLE, << "x" >>) }
         ELSE {}

\* telegram_webhook has dispatched update upd, naming user u, to handler h,
\* which left o; the request is answered {"ok": true}
Dispatched(h, sender, u, upd, o) ==
    /\ resp' = [op |-> "webhook", handler |-> h, sender |-> sender,
                user |-> u, update |-> upd, status |-> 200,
                calls |-> o.calls, result |-> o.result, ids |-> o.ids,
                when |-> o.when, reply |-> o.reply]
    /\ plants' = o.plants
    /\ user_data' = [user_data EXCEPT ![u] = o.ud]
    /\ UNCHANGED <<now, init_data, req, env, plant_photos>>

CmdToday ==
    /\ Idle
    /\ \E sender \in Senders, u \in ChatUsers :
         \E order \in FetchOrders(plants, u) :
            Dispatched("cmd_today", sender, u, Command("today"),
                       CmdTodayOut(plants, user_data[u], u, now, order, env))

CmdWater ==
    /\ Idle
    /\ \E sender \in Senders, u \in ChatUsers :
         Dispatched("cmd_water", sender, u, Command("water"),
                    CmdWaterOut(plants, user_data[u], u))

CmdSetNorms ==
    /\ Idle
    /\ \E sender \in Senders, u \in ChatUsers :
         Dispatched("cmd_set_norms", sender, u, Command("set_norms"),
                    CmdSetNormsOut(plants, user_data[u], u))

\* cmd_cancel: user_data.clear()
CmdCancel ==
    /\ Idle
    /\ \E sender \in Senders, u \in ChatUsers :
         Dispatched("cmd_cancel", sender, u, Command("cancel"),
                    Reply(Quiet(Cleared, plants), "CANCEL_OK"))

OnCallback ==
    /\ Idle
    /\ \E sender \in Senders, u \in ChatUsers :
         \E data \in CallbackChoices(plants, sender, u) :
            Dispatched("on_callback", sender, u, data,
                       OnCallbackOut(plants, user_data[u], u, data, now))

HandleText ==
    /\ Idle
    /\ \E sender \in Senders, u \in ChatUsers, text \in Texts :
         \E order \in FetchOrders(plants, u) :
            Dispatched("handle_text", sender, u, TextMessage(text),
                       HandleTextOut(plants, user_data[u], u, text, now,
                                     order, env))

\* the zones the process and the database session may run in
Zones == {0, TZ_OFFSET}

\* 20:00 UTC, which is 01:30 of the next day in Asia/Kolkata
ChatNow == MaxDaysAgo * SecondsPerDay + 20 * 60 * 60

\* the table a chat run starts from: as InitPlants, with plant 1 not yet
\* given an interval and last watered at `last`
ChatPlants(last) ==
    << Row(1, N_B, NULL, last, TRUE),
       Row(1, N_a, NULL, NULL, FALSE),
       Row(2, N_c, NULL, NULL, TRUE) >>

InitChat ==
    /\ now = ChatNow
    /\ init_data = <<>>
    /\ req = NoReq
    /\ resp = NoResp
    /\ plants \in { ChatPlants(NULL) }
                  \cup { ChatPlants(ChatNow - d * SecondsPerDay) : d \in DaysAgo }
    /\ user_data = NoUserData
    /\ env \in [proc : Zones, db : Zones]
    /\ plant_photos = <<>>

NextChat ==
    \/ CmdToday \/ CmdWater \/ CmdSetNorms \/ CmdCancel \/ OnCallback
    \/ HandleText \/ ArriveToday \/ ApiToday \/ Deliver

SpecChat == InitChat /\ [][NextChat]_vars

----------------------------------------------------------------------------
(* Who gets the engine to act, and what the status computations report *)

\* C4: every read or write of the plants engine done for a user was asked
\* for either by a mini-app request whose initData the verifier accepted or
\* by an update the chat platform delivered; a request of a party without
\* credential, POST /webhook with a self-made update included, gets none.
C4_EngineOnlyForAuthenticated ==
    /\ (resp.op = "webhook" /\ resp.calls # <<>>) => resp.sender = "platform"
    /\ (IsApi(resp) /\ resp.calls # <<>>) => resp.v.ok

\* C4: a self-made update naming user 1 has pressed Done, and log_water_many
\* has set the last watering of user 1's plant.
C4_ForgedUpdateWaters ==
    /\ resp.op = "webhook"
    /\ resp.sender = "forged"
    /\ resp.user = 1
    /\ resp.calls = << "log_water_many" >>
    /\ InList(resp.ids, 1)
    /\ plants[1].last_watered_at = now

BothSet(row) == row.water_every_days # NULL /\ row.last_watered_at # NULL

\* the status of an item due on lastDate + every, seen on the day `today`
ExpectedStatus(every, lastDate, today) ==
    LET due == lastDate + every
    IN  IF due < today
        THEN [status |-> "overdue", overdue_days |-> today - due,
              due_in_days |-> NULL]
        ELSE IF due = today
        THEN [status |-> "due", overdue_days |-> NULL, due_in_days |-> NULL]
        ELSE [status |-> "ok", overdue_days |-> NULL,
              due_in_days |-> due - today]

InSeq(seq, x) == \E i \in 1..Len(seq) : seq[i] = x

\* the response is that of a compute_today run from the chat
IsChatToday(r) == r.op = "webhook" /\ r.calls = << "compute_today" >>

\* what a compute_today result says of the plant called name: overdue with
\* its days, due, unknown, or ok when no list holds it
ChatStatus(result, name) ==
    IF \E i \in 1..Len(result.overdue) : result.overdue[i][1] = name
    THEN [status |-> "overdue",
          overdue_days |->
              result.overdue[CHOOSE i \in 1..Len(result.overdue) :
                                 result.overdue[i][1] = name][2]]
    ELSE IF InSeq(result.today_list, name)
    THEN [status |-> "due", overdue_days |-> NULL]
    ELSE IF InSeq(result.unknown, name)
    THEN [status |-> "unknown", overdue_days |-> NULL]
    ELSE [status |-> "ok", overdue_days |-> NULL]

\* C5: for every active plant with interval and last watering both set, the
\* status reported is the one of due_date = date(last) + interval against
\* today: overdue with overdue_days = today - due_date, due, or ok with
\* due_in_days = due_date - today; on the chat path (dates as compute_today
\* and cmd_today take them) and on the mini-app path (dates in TZ).
C5_StatusArithmetic ==
    /\ IsChatToday(resp) =>
         \A pid \in DOMAIN plants :
            (OwnedActive(plants, resp.user, pid) /\ BothSet(plants[pid])) =>
               LET exp == ExpectedStatus(plants[pid].water_every_days,
                              LocalDate(plants[pid].last_watered_at, env.db),
                              LocalDate(now, env.proc))
                   got == ChatStatus(resp.result, plants[pid].name)
               IN  got.status = exp.status
                   /\ got.overdue_days = exp.overdue_days
    /\ (resp.op = "api_today" /\ resp.v.ok) =>
         /\ resp.status = 200
         /\ \A pid \in DOMAIN plants :
              (OwnedActive(plants, resp.v.user_id, pid) /\ BothSet(plants[pid])) =>
                 LET exp == ExpectedStatus(plants[pid].water_every_days,
                                LocalDate(plants[pid].last_watered_at, TZ_OFFSET),
                                LocalDate(now, TZ_OFFSET))
                 IN  \E i \in 1..Len(resp.body.items) :
                        /\ resp.body.items[i].id = pid
                        /\ resp.body.items[i].status = exp.status
                        /\ resp.body.items[i].overdue_days = exp.overdue_days
                        /\ resp.body.items[i].due_in_days = exp.due_in_days

\* C5: GET /api/today of user 1, whose plant has interval 7 and was watered
\* 10 days ago, has raised instead of reporting overdue by 3 days.
C5_MiniAppRaises ==
    /\ resp.op = "api_today"
    /\ resp.v.ok
    /\ resp.v.user_id = 1
    /\ plants[1].active
    /\ plants[1].water_every_days = 7
    /\ plants[1].last_watered_at = now - 10 * SecondsPerDay
    /\ resp.status = 500

Unset(row) == row.water_every_days = NULL \/ row.last_watered_at = NULL

\* C6: an active plant is reported unknown ('setup' in the mini-app) exactly
\* when its interval or its last watering is unset, whatever interval
\* set_norm has stored.
C6_UnknownIffUnset ==
    /\ IsChatToday(resp) =>
         \A pid \in DOMAIN plants :
            OwnedActive(plants, resp.user, pid) =>
               (InSeq(resp.result.unknown, plants[pid].name)
                   <=> Unset(plants[pid]))
    /\ (resp.op = "api_today" /\ resp.v.ok /\ resp.status = 200) =>
         \A pid \in DOMAIN plants :
            OwnedActive(plants, resp.v.user_id, pid) =>
               \E i \in 1..Len(resp.body.items) :
                  /\ resp.body.items[i].id = pid
                  /\ (resp.body.items[i].status = "setup" <=> Unset(plants[pid]))

\* C6: set_norm has stored interval 0 for a watered plant of user 1, and
\* /today lists that plant as unknown.
C6_ZeroIntervalUnknown ==
    /\ IsChatToday(resp)
    /\ resp.user = 1
    /\ plants[1].active
    /\ plants[1].water_every_days = 0
    /\ plants[1].last_watered_at # NULL
    /\ InSeq(resp.result.unknown, plants[1].name)

----------------------------------------------------------------------------
(* storage.py called directly: log_water_many and set_last_watered_bulk take
   `when` from their caller, compute_today takes `today` *)

\* set_last_watered_bulk(user_id, updates): updates as the (plant_id, dt)
\* items of the dict, in its iteration order
RECURSIVE BulkLoop(_, _, _, _)
BulkLoop(tbl, uid, items, updated) ==
    IF items = <<>> THEN [plants |-> tbl, updated |-> updated]
    ELSE LET pid == Head(items)[1]
             dt == Head(items)[2]
         IN  BulkLoop(SetLastWatered(tbl, uid, pid, dt), uid, Tail(items),
                      IF MatchesActive(tbl, uid, pid) THEN updated + 1
                      ELSE updated)

SetLastWateredBulk(tbl, uid, items) == BulkLoop(tbl, uid, items, 0)

\* the instants a caller may pass as `when`: now and whole days before it
Whens(t) == { t - d * SecondsPerDay : d \in DaysAgo }

\* the intervals the plant of user 1 may have been given
Intervals == {NULL, 0, 1, 7}

\* the dicts a caller may pass to set_last_watered_bulk: up to two plants
BulkItems(t) ==
    { <<>> } \cup { << << pid, dt >> >> : pid \in PlantIds, dt \in Whens(t) }
    \cup { << << 1, dt >>, << 3, du >> >> : dt \in Whens(t), du \in Whens(t) }

\* the table a run of storage calls starts from
StoragePlants(every, last) ==
    << Row(1, N_B, every, last, TRUE),
       Row(1, N_a, NULL, NULL, FALSE),
       Row(2, N_c, 1, NULL, TRUE) >>

\* the trace of a storage call: its arguments (ids[i] to be set to whens[i]),
\* what it returned, and the table it found
Called(op, uid, ids, whens, returned, result, was) ==
    [op |-> op, user |-> uid, ids |-> ids, whens |-> whens,
     returned |-> returned, result |-> result, was |-> was]

StorageLogWaterMany ==
    /\ Idle
    /\ \E uid \in Users, ids \in IdLists, when \in Whens(now) :
        LET w == LogWaterMany(plants, uid, ids, when, 0)
        IN  /\ plants' = w.plants
            /\ resp' = Called("log_water_many", uid, ids,
                              [i \in 1..Len(ids) |-> when], w.updated,
                              NoResult, plants)
            /\ UNCHANGED <<now, init_data, req, user_data, env, plant_photos>>

StorageSetLastWateredBulk ==
    /\ Idle
    /\ \E uid \in Users, items \in BulkItems(now) :
        LET w == SetLastWateredBulk(plants, uid, items)
        IN  /\ plants' = w.plants
            /\ resp' = Called("set_last_watered_bulk", uid,
                              [i \in 1..Len(items) |-> items[i][1]],
                              [i \in 1..Len(items) |-> items[i][2]],
                              w.updated, NoResult, plants)
            /\ UNCHANGED <<now, init_data, req, user_data, env, plant_photos>>

StorageComputeToday ==
    /\ Idle
    /\ \E uid \in Users :
        \E order \in FetchOrders(plants, uid) :
            /\ resp' = Called("compute_today", uid, <<>>, <<>>, NULL,
                              ComputeToday(plants, uid, LocalDate(now, env.proc),
                                           order, env.db),
                              plants)
            /\ UNCHANGED <<now, init_data, req, plants, user_data, env, plant_photos>>

InitStorage ==
    /\ now = ChatNow
    /\ init_data = <<>>
    /\ req = NoReq
    /\ resp = NoResp
    /\ plants \in { StoragePlants(every, last) :
                      every \in Intervals, last \in {NULL} \cup Whens(ChatNow) }
    /\ user_data = NoUserData
    /\ env = UtcEnv
    /\ plant_photos = <<>>

NextStorage ==
    \/ StorageLogWaterMany \/ StorageSetLastWateredBulk
    \/ StorageComputeToday \/ Deliver

SpecStorage == InitStorage /\ [][NextStorage]_vars

----------------------------------------------------------------------------
(* Watering and the statuses computed after it *)

IsWatering(r) == r.op \in {"log_water_many", "set_last_watered_bulk"}

\* the status compute_today gives the active plant pid of tbl on the day
\* the clock shows at instant t
StatusIn(tbl, pid, t, e) ==
    LET uid == tbl[pid].user_id
        rows == ListPlants(tbl, uid)
        order == [i \in 1..Len(rows) |-> rows[i][1]]
    IN  ChatStatus(ComputeToday(tbl, uid, LocalDate(t, e.proc), order, e.db),
                   tbl[pid].name).status

\* from ok to due or overdue, or from due to overdue
Regressed(before, after) ==
    \/ (before = "ok" /\ after \in {"due", "overdue"})
    \/ (before = "due" /\ after = "overdue")

\* C11: when a plant last watered at t0 is marked watered with when <= t0,
\* its status recomputed right after has not regressed (not from ok to due
\* or overdue, not from due to overdue); and repeating a log_water_many call
\* with the same ids and `when` leaves every status as the first call left
\* it.
C11_NoRegression ==
    IsWatering(resp) =>
       /\ \A i \in 1..Len(resp.ids) :
            LET pid == resp.ids[i]
            IN  (/\ OwnedActive(resp.was, resp.user, pid)
                 /\ resp.was[pid].last_watered_at # NULL
                 /\ resp.whens[i] <= resp.was[pid].last_watered_at)
                  => ~Regressed(StatusIn(resp.was, pid, now, env),
                                StatusIn(plants, pid, now, env))
       /\ (resp.op = "log_water_many" /\ resp.ids # <<>>) =>
            LET again == LogWaterMany(plants, resp.user, resp.ids,
                                      resp.whens[1], 0).plants
            IN  \A pid \in DOMAIN plants :
                   plants[pid].active =>
                      StatusIn(again, pid, now, env) = StatusIn(plants, pid, now, env)

\* C11: plant 1, interval 7 and watered today, has been marked watered with
\* a `when` 10 days back by log_water_many: it was ok and is now overdue.
C11_EarlierWhenRegresses ==
    /\ resp.op = "log_water_many"
    /\ resp.user = 1
    /\ resp.ids = << 1 >>
    /\ resp.whens[1] = now - 10 * SecondsPerDay
    /\ resp.was[1].last_watered_at = now
    /\ plants[1].water_every_days = 7
    /\ StatusIn(resp.was, 1, now, env) = "ok"
    /\ StatusIn(plants, 1, now, env) = "overdue"

\* the row was last watered on the date instant t falls on, both in TZ
WateredToday(row, t) ==
    /\ row.last_watered_at # NULL
    /\ LocalDate(row.last_watered_at, TZ_OFFSET) = LocalDate(t, TZ_OFFSET)

\* the chat path of C12: /today after a watering of today does not list the
\* watered plant, if its interval is at least 1, as overdue
C12_ChatPath ==
    IsChatToday(resp) =>
       \A pid \in DOMAIN plants :
          (/\ OwnedActive(plants, resp.user, pid)
           /\ WateredToday(plants[pid], now)
           /\ plants[pid].water_every_days >= 1)
            => ChatStatus(resp.result, plants[pid].name).status \in {"ok", "due"}

\* the mini-app path of C12: GET /api/today after a watering of today
\* carries a record for the watered plant, if its interval is at least 1,
\* and the record is not overdue
C12_MiniAppPath ==
    (resp.op = "api_today" /\ resp.v.ok) =>
       \A pid \in DOMAIN plants :
          (/\ OwnedActive(plants, resp.v.user_id, pid)
           /\ WateredToday(plants[pid], now)
           /\ plants[pid].water_every_days >= 1)
            => \E i \in 1..Len(resp.body.items) :
                  /\ resp.body.items[i].id = pid
                  /\ resp.body.items[i].status # "overdue"

----------------------------------------------------------------------------
(* The status computations over a user with two active plants *)

\* the table a run of status computations starts from: user 1 owns the
\* active plants "B" and "a", in any state of interval and last watering
TodayPlants(e1, l1, e2, l2) ==
    << Row(1, N_B, e1, l1, TRUE),
       Row(1, N_a, e2, l2, TRUE),
       Row(2, N_c, NULL, NULL, TRUE) >>

InitToday ==
    /\ now = ChatNow
    /\ init_data = <<>>
    /\ req = NoReq
    /\ resp = NoResp
    /\ plants \in { TodayPlants(e1, l1, e2, l2) :
                      e1 \in Intervals, e2 \in Intervals,
                      l1 \in {NULL} \cup Whens(ChatNow),
                      l2 \in {NULL} \cup Whens(ChatNow) }
    /\ user_data = NoUserData
    /\ env \in [proc : Zones, db : Zones]
    /\ plant_photos = <<>>

NextToday == CmdToday \/ ArriveToday \/ ApiToday \/ Deliver

SpecToday == InitToday /\ [][NextToday]_vars

\* the place of a status in the order of the list
GroupRank(status) ==
    IF status = "overdue" THEN 0 ELSE IF status = "due" THEN 1
    ELSE IF status = "setup" THEN 2 ELSE 3

\* the list holds a record for every active plant of uid
HasAllRecords(items, tbl, uid) ==
    \A pid \in DOMAIN tbl :
        OwnedActive(tbl, uid, pid) =>
            \E i \in 1..Len(items) : items[i].id = pid

\* overdue before due before setup before ok, and by name without regard to
\* case inside the due, setup and ok groups
GroupedThenByName(items) ==
    \A i, j \in 1..Len(items) :
        i < j =>
           /\ GroupRank(items[i].status) <= GroupRank(items[j].status)
           /\ (items[i].status = items[j].status /\ items[i].status # "overdue")
                => ~LexLess(LowerStr(items[j].name), LowerStr(items[i].name))

\* C13: the items of GET /api/today, one for each active plant of the user,
\* come overdue first, then due, then setup, then ok, and inside the due,
\* setup and ok groups by display name compared without regard to case.
C13_ItemsGroupedThenByName ==
    (resp.op = "api_today" /\ resp.v.ok) =>
       /\ HasAllRecords(resp.body.items, plants, resp.v.user_id)
       /\ GroupedThenByName(resp.body.items)

\* C13: user 1 has a plant that is overdue and one that needs an interval;
\* GET /api/today has raised and returned no list.
C13_NoListForMixedGroups ==
    /\ resp.op = "api_today"
    /\ resp.v.ok
    /\ resp.v.user_id = 1
    /\ plants[1].water_every_days = 7
    /\ plants[1].last_watered_at = now - 10 * SecondsPerDay
    /\ plants[2].water_every_days = NULL
    /\ resp.status = 500
    /\ resp.body.items = <<>>

\* C14: the overdue items of a status computation come most overdue first:
\* of two overdue items the earlier one has at least the overdue days of the
\* later one, in the overdue list of compute_today and among the records of
\* GET /api/today.
C14_MostOverdueFirst ==
    /\ IsChatToday(resp) =>
         \A i, j \in 1..Len(resp.result.overdue) :
            i < j => resp.result.overdue[i][2] >= resp.result.overdue[j][2]
    /\ (resp.op = "api_today" /\ resp.v.ok) =>
         \A i, j \in 1..Len(resp.body.items) :
            (/\ i < j
             /\ resp.body.items[i].status = "overdue"
             /\ resp.body.items[j].status = "overdue")
              => resp.body.items[i].overdue_days >= resp.body.items[j].overdue_days

\* C14: /today of user 1 lists two overdue plants, the less overdue one
\* first.
C14_LessOverdueFirst ==
    /\ IsChatToday(resp)
    /\ resp.user = 1
    /\ Len(resp.result.overdue) = 2
    /\ resp.result.overdue[1][2] < resp.result.overdue[2][2]

----------------------------------------------------------------------------
(* The fields of a status record *)

\* overdue_days is set exactly in an overdue record, due_in_days exactly in
\* an ok record, and a setup record carries no days_since
FieldsMatchStatus(it) ==
    /\ (it.overdue_days # NULL) <=> (it.status = "overdue")
    /\ (it.due_in_days # NULL) <=> (it.status = "ok")
    /\ it.status = "setup" => it.days_since = NULL

\* the row has interval 7 and was last watered on the local day 7 days
\* before the local day of instant t
DueToday(row, t) ==
    /\ row.water_every_days = 7
    /\ row.last_watered_at # NULL
    /\ LocalDate(row.last_watered_at, TZ_OFFSET) + 7 = LocalDate(t, TZ_OFFSET)

\* C21: in every record of GET /api/today overdue_days is set exactly when
\* the status is overdue and due_in_days exactly when it is ok; a plant with
\* interval 7 last watered 7 days ago gets a due record carrying neither, and
\* a record without interval or last watering carries neither and no
\* days_since.
C21_FieldsFollowStatus ==
    (resp.op = "api_today" /\ resp.v.ok) =>
       /\ \A i \in 1..Len(resp.body.items) :
             FieldsMatchStatus(resp.body.items[i])
       /\ \A pid \in DOMAIN plants :
             (OwnedActive(plants, resp.v.user_id, pid) /\ DueToday(plants[pid], now))
               => \E i \in 1..Len(resp.body.items) :
                     /\ resp.body.items[i].id = pid
                     /\ resp.body.items[i].status = "due"
                     /\ resp.body.items[i].overdue_days = NULL
                     /\ resp.body.items[i].due_in_days = NULL

\* C21: plant 1 of user 1 has interval 7 and was last watered 7 days ago;
\* GET /api/today has raised and returned no record for it.
C21_NoDueRecord ==
    /\ resp.op = "api_today"
    /\ resp.v.ok
    /\ resp.v.user_id = 1
    /\ DueToday(plants[1], now)
    /\ resp.status = 500
    /\ resp.body.items = <<>>

----------------------------------------------------------------------------
(* The days around a due date: the clock moves through three local days
   while one plant with interval 7 waits to be watered *)

MaxClockSteps == 12

ClockStep == 6 * 60 * 60

\* 00:00 UTC of day 9, which is 05:30 of day 9 in Asia/Kolkata
ClockStart == 9 * SecondsPerDay

\* the instants at which the plant was watered last: 12:00 UTC of day 3
\* (17:30 of day 3 in Asia/Kolkata) and 20:00 UTC of day 3 (01:30 of day 4)
LastInstants == { 3 * SecondsPerDay + 12 * 60 * 60, 3 * SecondsPerDay + 20 * 60 * 60 }

DayPlants(last) ==
    << Row(1, N_B, 7, last, TRUE),
       Row(1, N_a, NULL, NULL, FALSE),
       Row(2, N_c, NULL, NULL, TRUE) >>

\* time passes between requests
ClockAdvance ==
    /\ Idle
    /\ now < ClockStart + MaxClockSteps * ClockStep
    /\ now' = now + ClockStep
    /\ UNCHANGED <<init_data, req, resp, plants, user_data, env, plant_photos>>

InitDay ==
    /\ now = ClockStart
    /\ init_data = <<>>
    /\ req = NoReq
    /\ resp = NoResp
    /\ plants \in { DayPlants(last) : last \in LastInstants }
    /\ user_data = NoUserData
    /\ env \in [proc : Zones, db : Zones]
    /\ plant_photos = <<>>

NextDay == CmdToday \/ ArriveToday \/ ApiToday \/ Deliver \/ ClockAdvance

SpecDay == InitDay /\ [][NextDay]_vars

\* the day of instant t in the configured zone
ConfiguredDay(t) == LocalDate(t, TZ_OFFSET)

\* the day in the configured zone on which the row is due
DueDay(row) == ConfiguredDay(row.last_watered_at) + row.water_every_days

\* the chat path of C22: /today reports plant 1 due on its due day and not
\* on the day before or after
C22_ChatPath ==
    (IsChatToday(resp) /\ resp.user = 1) =>
       LET st == ChatStatus(resp.result, plants[1].name).status
           d  == ConfiguredDay(now) - DueDay(plants[1])
       IN  /\ d = 0 => st = "due"
           /\ d \in {-1, 1} => st # "due"

\* the mini-app path of C22: GET /api/today reports plant 1 due on its due
\* day and not on the day before or after
C22_MiniAppPath ==
    (resp.op = "api_today" /\ resp.v.ok /\ resp.v.user_id = 1) =>
       LET d == ConfiguredDay(now) - DueDay(plants[1])
       IN  /\ d = 0 => \E i \in 1..Len(resp.body.items) :
                          /\ resp.body.items[i].id = 1
                          /\ resp.body.items[i].status = "due"
           /\ d \in {-1, 1} => \A i \in 1..Len(resp.body.items) :
                          resp.body.items[i].id = 1
                             => resp.body.items[i].status # "due"

\* C22: on the chat path and on the mini-app path, today and the date of the
\* last watering are both taken in Asia/Kolkata: an item whose due date is
\* local day D is reported due at every instant of local day D and at no
\* instant of local day D-1 or D+1.
C22_DueOnItsLocalDay == C22_ChatPath /\ C22_MiniAppPath

\* C22: process and database both keep UTC; at an instant of the local day
\* before the due day, /today has reported plant 1 as due.
C22_DueOnTheDayBefore ==
    /\ IsChatToday(resp)
    /\ resp.user = 1
    /\ env = [proc |-> 0, db |-> 0]
    /\ ConfiguredDay(now) = DueDay(plants[1]) - 1
    /\ ChatStatus(resp.result, plants[1].name).status = "due"

----------------------------------------------------------------------------
(* One record per active plant *)

\* the number of records of items that are about plant pid
RecordsOf(items, pid) == Cardinality({i \in 1..Len(items) : items[i].id = pid})

\* C23: GET /api/today with initData that verifies to user U is answered
\* with exactly one record for each active plant of U, whatever interval and
\* last watering the plants have, and no record for any other row.
C23_OneRecordPerActivePlant ==
    (resp.op = "api_today" /\ resp.v.ok) =>
       /\ resp.status = 200
       /\ \A pid \in DOMAIN plants :
             RecordsOf(resp.body.items, pid) =
                IF OwnedActive(plants, resp.v.user_id, pid) THEN 1 ELSE 0

\* C23: both plants of user 1 have an interval and a last watering; GET
\* /api/today with valid initData of user 1 has been answered 500 with no
\* record.
C23_TodayRaises ==
    /\ resp.op = "api_today"
    /\ resp.v.ok
    /\ resp.v.user_id = 1
    /\ \A pid \in {1, 2} :
          /\ OwnedActive(plants, 1, pid)
          /\ plants[pid].water_every_days \in {1, 7}
          /\ plants[pid].last_watered_at # NULL
    /\ resp.status = 500
    /\ RecordsOf(resp.body.items, 1) = 0

----------------------------------------------------------------------------
(* Watering nothing *)

\* C24: POST /api/water with an empty plant_ids and accepted initData is
\* answered 200 with updated 0: log_water_many returns 0, nothing is raised
\* and no row changes.
C24_EmptyListIsNoOp ==
    [][ (ApiWater /\ resp'.v.ok /\ req.plant_ids = <<>>)
          => /\ resp'.status = 200
             /\ resp'.returned = 0
             /\ resp'.updated = 0
             /\ plants' = plants ]_vars

\* C24: after plant 1 was watered, a POST /api/water of user 1 with an empty
\* plant_ids has been answered 200 with updated 0.
C24_Witness ==
    /\ resp.op = "api_water"
    /\ resp.v.ok
    /\ resp.v.user_id = 1
    /\ resp.ids = <<>>
    /\ plants[1].last_watered_at # NULL
    /\ resp.status = 200
    /\ resp.returned = 0
    /\ resp.updated = 0

----------------------------------------------------------------------------
(* Status computations leave the table alone *)

\* C25: a step that computes statuses, compute_today from the chat or
\* _build_today_payload from GET /api/today, changes no field of any row of
\* plants, whatever was written before it.
C25_StatusComputationWritesNothing ==
    [][ (IsChatToday(resp') \/ resp'.op = "api_today") => plants' = plants ]_vars

\* C25: after plant 1 of user 1 was given the interval 7 in the chat, /today
\* has reported it with the table as it was.
C25_Witness ==
    /\ IsChatToday(resp)
    /\ resp.user = 1
    /\ plants[1].water_every_days = 7
    /\ plants[1].last_watered_at # NULL
    /\ resp.result.unknown = <<>>

----------------------------------------------------------------------------
(* storage.py: every operation on plants, called by either user *)

MaxOps == 2

N_x == << "x" >>

\* the rows the calls of a run name: one of each user, and an id no row has
\* at the start
OwnIds == {1, 3, 4}

OwnStart == 5 * SecondsPerDay

\* the table an ownership run starts from
OwnPlants ==
    << Row(1, N_B, 7, OwnStart - SecondsPerDay, TRUE),
       Row(1, N_a, NULL, NULL, FALSE),
       Row(2, N_c, 1, OwnStart - SecondsPerDay, TRUE) >>

\* a storage call of user uid ends: the clock has moved on, the table is tbl
\* and the trace holds what was returned
Returns(op, uid, ids, returned, result, tbl) ==
    /\ Idle
    /\ now < OwnStart + MaxOps
    /\ now' = now + 1
    /\ plants' = tbl
    /\ resp' = Called(op, uid, ids, <<>>, returned, result, plants)
    /\ UNCHANGED <<init_data, req, user_data, env, plant_photos>>

OwnAddPlant ==
    \E uid \in Users :
        Returns("add_plant", uid, <<>>, NULL, NoResult, AddPlant(plants, uid, N_x))

OwnRenamePlant ==
    \E uid \in Users, pid \in OwnIds :
        LET r == RenamePlant(plants, uid, pid, N_x)
        IN  Returns("rename_plant", uid, << pid >>, r.returned, NoResult, r.plants)

OwnSetNorm ==
    \E uid \in Users, pid \in OwnIds :
        Returns("set_norm", uid, << pid >>, MatchesOwner(plants, uid, pid),
                NoResult, SetNorm(plants, uid, pid, 3))

OwnSetActive ==
    \E uid \in Users, pid \in OwnIds, active \in BOOLEAN :
        Returns("set_active", uid, << pid >>, MatchesOwner(plants, uid, pid),
                NoResult, SetActive(plants, uid, pid, active))

OwnLogWater ==
    \E uid \in Users, pid \in OwnIds :
        Returns("log_water", uid, << pid >>, MatchesActive(plants, uid, pid),
                NoResult, SetLastWatered(plants, uid, pid, now))

OwnLogWaterMany ==
    \E uid \in Users, ids \in { << 1, 3 >>, << 3, 4 >> } :
        LET w == LogWaterMany(plants, uid, ids, now, 0)
        IN  Returns("log_water_many", uid, ids, w.updated, NoResult, w.plants)

OwnSetLastWateredBulk ==
    \E uid \in Users :
        LET w == SetLastWateredBulk(plants, uid, << << 1, now >>, << 3, now >> >>)
        IN  Returns("set_last_watered_bulk", uid, << 1, 3 >>, w.updated,
                    NoResult, w.plants)

OwnListPlants ==
    \E uid \in Users :
        Returns("list_plants", uid, <<>>, ListPlants(plants, uid), NoResult, plants)

OwnListPlantsArchived ==
    \E uid \in Users :
        Returns("list_plants_archived", uid, <<>>,
                ListPlantsArchived(plants, uid), NoResult, plants)

OwnGetNorms ==
    \E uid \in Users :
        Returns("get_norms", uid, <<>>, GetNorms(plants, uid), NoResult, plants)

OwnGetPlantContext ==
    \E uid \in Users, pid \in OwnIds :
        Returns("get_plant_context", uid, << pid >>,
                GetPlantContext(plants, uid, pid), NoResult, plants)

OwnComputeToday ==
    \E uid \in Users :
        \E order \in FetchOrders(plants, uid) :
            Returns("compute_today", uid, <<>>, NULL,
                    ComputeToday(plants, uid, LocalDate(now, env.proc), order, env.db),
                    plants)

InitOwn ==
    /\ now = OwnStart
    /\ init_data = <<>>
    /\ req = NoReq
    /\ resp = NoResp
    /\ plants = OwnPlants
    /\ user_data = NoUserData
    /\ env = UtcEnv
    /\ plant_photos = <<>>

NextOwn ==
    \/ OwnAddPlant \/ OwnRenamePlant \/ OwnSetNorm \/ OwnSetActive
    \/ OwnLogWater \/ OwnLogWaterMany \/ OwnSetLastWateredBulk
    \/ OwnListPlants \/ OwnListPlantsArchived \/ OwnGetNorms
    \/ OwnGetPlantContext \/ OwnComputeToday \/ Deliver

SpecOwn == InitOwn /\ [][NextOwn]_vars

StorageOps ==
    { "add_plant", "rename_plant", "set_norm", "set_active", "log_water",
      "log_water_many", "set_last_watered_bulk", "list_plants",
      "list_plants_archived", "get_norms", "get_plant_context", "compute_today" }

\* the names of the rows of uid in tbl
NamesOf(tbl, uid) == { tbl[p].name : p \in { q \in DOMAIN tbl : tbl[q].user_id = uid } }

\* what the call returned speaks only of rows of its caller
ReturnsOwnRowsOnly(r) ==
    /\ r.op \in {"list_plants", "list_plants_archived"} =>
          \A i \in 1..Len(r.returned) :
              MatchesOwner(r.was, r.user, r.returned[i][1])
    /\ r.op = "get_norms" =>
          \A row \in r.returned : row[1] \in NamesOf(r.was, r.user)
    /\ (r.op = "get_plant_context" /\ r.returned # <<>>) =>
          MatchesOwner(r.was, r.user, r.ids[1])
    /\ r.op = "compute_today" =>
          /\ \A i \in 1..Len(r.result.overdue) :
                r.result.overdue[i][1] \in NamesOf(r.was, r.user)
          /\ \A i \in 1..Len(r.result.today_list) :
                r.result.today_list[i] \in NamesOf(r.was, r.user)
          /\ \A i \in 1..Len(r.result.unknown) :
                r.result.unknown[i] \in NamesOf(r.was, r.user)

\* C26: after a storage operation called with identity A, every row of
\* plants owned by another identity is as it was and no row of another
\* identity has appeared, and a list or status operation called with A
\* returns rows of A only.
C26_OwnershipIsolation ==
    resp.op \in StorageOps =>
       /\ \A pid \in DOMAIN resp.was :
             resp.was[pid].user_id # resp.user =>
                (pid \in DOMAIN plants /\ plants[pid] = resp.was[pid])
       /\ \A pid \in DOMAIN plants :
             pid \notin DOMAIN resp.was => plants[pid].user_id = resp.user
       /\ ReturnsOwnRowsOnly(resp)

\* C26: user 2 has called set_norm on plant 1, which user 1 owns: nothing
\* was updated and the row is as it was.
C26_Witness ==
    /\ resp.op = "set_norm"
    /\ resp.user = 2
    /\ resp.ids = << 1 >>
    /\ resp.was[1].user_id = 1
    /\ resp.returned = FALSE
    /\ plants[1] = resp.was[1]

----------------------------------------------------------------------------
(* The status of an item and the other items of its owner *)

\* the table with every row other than pid archived
Alone(tbl, pid) ==
    [p \in DOMAIN tbl |->
        IF p = pid THEN tbl[p] ELSE [tbl[p] EXCEPT !.active = FALSE]]

\* the status a GET /api/today body gives plant pid; "none" when the body
\* has no record for it
StatusOfItem(body, pid) ==
    IF \E i \in 1..Len(body.items) : body.items[i].id = pid
    THEN body.items[CHOOSE i \in 1..Len(body.items) : body.items[i].id = pid].status
    ELSE "none"

\* the chat path of C27: the status /today gives an active plant is the one
\* it gives the plant when the plant is the only active one
C27_ChatPath ==
    IsChatToday(resp) =>
       \A pid \in DOMAIN plants :
          OwnedActive(plants, resp.user, pid) =>
             ChatStatus(resp.result, plants[pid].name)
                = ChatStatus(ComputeToday(Alone(plants, pid), resp.user,
                                          LocalDate(now, env.proc), << pid >>,
                                          env.db),
                             plants[pid].name)

\* the mini-app path of C27: the status GET /api/today gives an active plant
\* is the one it gives the plant when the plant is the only active one
C27_MiniAppPath ==
    (resp.op = "api_today" /\ resp.v.ok) =>
       \A pid \in DOMAIN plants :
          OwnedActive(plants, resp.v.user_id, pid) =>
             StatusOfItem(resp.body, pid)
                = StatusOfItem(BuildTodayPayload(Alone(plants, pid),
                                                 resp.v.user_id, now, {}),
                               pid)

\* C27: the status of an item is a function of its own interval, last
\* watering and today: it is the same whatever the other items of its owner
\* are, on the chat path and on the mini-app path.
C27_StatusOfItemAlone == C27_ChatPath /\ C27_MiniAppPath

\* C27: plant 1 of user 1 has no interval and alone would be reported as
\* setup; plant 2 has an interval and a last watering, and GET /api/today has
\* given plant 1 no status.
C27_OtherItemTakesStatusAway ==
    /\ resp.op = "api_today"
    /\ resp.v.ok
    /\ resp.v.user_id = 1
    /\ plants[1].water_every_days = NULL
    /\ NeedsTimedelta(plants[2])
    /\ StatusOfItem(BuildTodayPayload(Alone(plants, 1), 1, now, {}), 1)
         = "setup"
    /\ StatusOfItem(resp.body, 1) = "none"

----------------------------------------------------------------------------
(* storage.py: two calls of log_water_many at once, each on its own
   connection.  Inside one server process a call runs to its return without
   yielding; two calls overlap when two processes serve the same database.
   An UPDATE that matches a row takes the lock of the row until its
   transaction ends, and waits while another open transaction holds it; when
   each of two transactions waits for a row of the other the database ends
   one of them with deadlock_detected. *)

\* the two processes
Procs == {1, 2}

Other(p) == 3 - p

\* the plants of user 1 at the start: both active
PairPlants(last) ==
    << Row(1, N_B, 7, last, TRUE),
       Row(1, N_a, 7, last, TRUE),
       Row(2, N_c, NULL, NULL, TRUE) >>

\* the lists a call may be given: ids of the caller and an id of another user
PairLists ==
    { << 1 >>, << 2 >>, << 3 >>, << 1, 2 >>, << 2, 1 >>, << 1, 3 >>, << 3, 2 >> }

\* a call of log_water_many at its first statement: k is the statement to
\* run next, locked the rows it has updated
Begun(ids, when) ==
    [ids |-> ids, when |-> when, k |-> 1, locked |-> {}, updated |-> 0,
     state |-> "running"]

\* call p is inside its loop
InLoop(c) == c.state = "running" /\ c.k <= Len(c.ids)

\* the next UPDATE of call p matches a row whose lock the other call holds
WaitsForOther(tbl, calls, p) ==
    /\ InLoop(calls[p])
    /\ MatchesActive(tbl, 1, calls[p].ids[calls[p].k])
    /\ calls[Other(p)].state = "running"
    /\ calls[p].ids[calls[p].k] \in calls[Other(p)].locked

\* two requests of user 1 reach log_water_many, one in each process
CallsArrive ==
    /\ Idle
    /\ \E a \in PairLists, b \in PairLists :
         req' = [op |-> "log_water_many",
                 calls |-> << Begun(a, now), Begun(b, now + 1) >>]
    /\ UNCHANGED <<now, init_data, resp, plants, user_data, env, plant_photos>>

\* cur.execute(UPDATE ...) of call p returns: the row, if one matched, is
\* locked and counted
Execute(p) ==
    /\ req.op = "log_water_many"
    /\ InLoop(req.calls[p])
    /\ ~WaitsForOther(plants, req.calls, p)
    /\ LET c == req.calls[p]
           pid == c.ids[c.k]
           hit == MatchesActive(plants, 1, pid)
       IN  req' = [req EXCEPT !.calls[p] =
                      [c EXCEPT !.k = @ + 1,
                                !.locked = IF hit THEN @ \cup {pid} ELSE @,
                                !.updated = IF hit /\ pid \notin c.locked
                                            THEN @ + 1 ELSE @]]
    /\ UNCHANGED <<now, init_data, resp, plants, user_data, env, plant_photos>>

\* conn.commit() of call p: its rows take its timestamp, its locks are gone
Commit(p) ==
    /\ req.op = "log_water_many"
    /\ req.calls[p].state = "running"
    /\ req.calls[p].k > Len(req.calls[p].ids)
    /\ plants' = [pid \in DOMAIN plants |->
                    IF pid \in req.calls[p].locked
                    THEN [plants[pid] EXCEPT !.last_watered_at = req.calls[p].when]
                    ELSE plants[pid]]
    /\ req' = [req EXCEPT !.calls[p].state = "committed",
                          !.calls[p].locked = {}]
    /\ UNCHANGED <<now, init_data, resp, user_data, env, plant_photos>>

\* each call waits for a row of the other: the database raises
\* deadlock_detected in the cur.execute of call p, the with-block is left
\* before conn.commit() and the transaction is rolled back
DeadlockDetected(p) ==
    /\ req.op = "log_water_many"
    /\ WaitsForOther(plants, req.calls, p)
    /\ WaitsForOther(plants, req.calls, Other(p))
    /\ req' = [req EXCEPT !.calls[p].state = "aborted",
                          !.calls[p].locked = {},
                          !.calls[p].updated = 0]
    /\ UNCHANGED <<now, init_data, resp, plants, user_data, env, plant_photos>>

\* both calls have ended
BothReturn ==
    /\ req.op = "log_water_many"
    /\ \A p \in Procs : req.calls[p].state \in {"committed", "aborted"}
    /\ resp' = [op |-> "log_water_many_pair", calls |-> req.calls]
    /\ req' = NoReq
    /\ UNCHANGED <<now, init_data, plants, user_data, env, plant_photos>>

InitPair ==
    /\ now = T0
    /\ init_data = <<>>
    /\ req = NoReq
    /\ resp = NoResp
    /\ plants \in { PairPlants(NULL), PairPlants(T0 - SecondsPerDay) }
    /\ user_data = NoUserData
    /\ env = UtcEnv
    /\ plant_photos = <<>>

NextPair ==
    \/ CallsArrive
    \/ \E p \in Procs : Execute(p) \/ Commit(p) \/ DeadlockDetected(p)
    \/ BothReturn
    \/ Deliver

SpecPair == InitPair /\ [][NextPair]_vars

\* the two lists have a row of user 1 in common
Overlap(calls) ==
    \E i \in 1..Len(calls[1].ids), j \in 1..Len(calls[2].ids) :
        /\ calls[1].ids[i] = calls[2].ids[j]
        /\ calls[1].ids[i] \in {1, 2}

\* C28: two calls of log_water_many at once whose lists overlap both end
\* with their updates committed, whatever the order of the shared ids in the
\* two lists and however their statements interleave: neither is aborted
\* because of the rows the other has written and not yet committed.
C28_BothCommit ==
    (resp.op = "log_water_many_pair" /\ Overlap(resp.calls)) =>
        \A p \in Procs :
            /\ resp.calls[p].state = "committed"
            /\ \A i \in 1..Len(resp.calls[p].ids) :
                  resp.calls[p].ids[i] \in {1, 2}
                     => plants[resp.calls[p].ids[i]].last_watered_at # NULL

\* C28: one call was given plants 1, 2 and the other plants 2, 1; the second
\* has committed and the first was ended by the database with its updates
\* rolled back.
C28_DeadlockAbortsOne ==
    /\ resp.op = "log_water_many_pair"
    /\ resp.calls[1].ids = << 1, 2 >>
    /\ resp.calls[2].ids = << 2, 1 >>
    /\ resp.calls[1].state = "aborted"
    /\ resp.calls[2].state = "committed"
    /\ plants[1].last_watered_at = resp.calls[2].when
    /\ plants[2].last_watered_at = resp.calls[2].when

----------------------------------------------------------------------------
(* The inline /water flow: what Done hands to log_water_many *)

FlowOpen(ud) == "await_water_buttons" \in ud.flags

\* the update of this step opens the flow: the flow is open after it, and
\* it was /water, the go:water button, or the flow was not open before
OpensFlow(r, before, after) ==
    /\ FlowOpen(after)
    /\ \/ ~FlowOpen(before)
       \/ r.handler = "cmd_water"
       \/ r.update.tag = CB_GO_WATER

TogglesFlow(r, before) ==
    /\ r.handler = "on_callback" /\ r.update.tag = CB_W_TOGGLE
    /\ FlowOpen(before) /\ PyIntText(r.update.arg)

SymmetricDifference(a, b) == (a \ b) \cup (b \ a)

SeqToSet(s) == { s[i] : i \in 1..Len(s) }

CountOf(calls, name) == Cardinality({ i \in 1..Len(calls) : calls[i] = name })

\* C30: the selection is empty when the flow is opened, each toggle received
\* while the flow is open flips the membership of its plant id and nothing
\* else changes the selection while the flow stays open, so the selection
\* is the set of ids toggled an odd number of times since the opening; Done
\* on an open flow with a non-empty selection calls log_water_many exactly
\* once with exactly the ids of the selection and clears the flow state,
\* Done with an empty selection calls nothing, and a toggle or Done received
\* while await_water_buttons is not set changes neither selection nor table.
C30_DoneLogsTheOddToggled ==
    [][ (resp.op = "none" /\ resp'.op = "webhook") =>
          LET r == resp'
              before == user_data[r.user]
              after == user_data'[r.user]
              callback == r.handler = "on_callback"
          IN  /\ OpensFlow(r, before, after) => after.water_sel_ids = {}
              /\ TogglesFlow(r, before) =>
                   /\ after.water_sel_ids =
                        SymmetricDifference(before.water_sel_ids,
                                            {PyIntValue(r.update.arg)})
                   /\ FlowOpen(after)
                   /\ plants' = plants
              /\ (FlowOpen(before) /\ FlowOpen(after)
                    /\ ~OpensFlow(r, before, after)
                    /\ ~TogglesFlow(r, before)) =>
                   after.water_sel_ids = before.water_sel_ids
              /\ (callback /\ r.update.tag = CB_W_DONE /\ FlowOpen(before)) =>
                   IF before.water_sel_ids # {}
                   THEN /\ CountOf(r.calls, "log_water_many") = 1
                        /\ SeqToSet(r.ids) = before.water_sel_ids
                        /\ Len(r.ids) = Cardinality(before.water_sel_ids)
                        /\ plants' = LogWaterMany(plants, r.user, r.ids,
                                                  now, 0).plants
                        /\ after.flags = {}
                        /\ after.water_sel_ids = {}
                        /\ after.water_rows_cache = <<>>
                   ELSE /\ CountOf(r.calls, "log_water_many") = 0
                        /\ plants' = plants
                        /\ after = before
              /\ (callback /\ r.update.tag \in {CB_W_TOGGLE, CB_W_DONE}
                    /\ ~FlowOpen(before)) =>
                   /\ after = before
                   /\ plants' = plants
                   /\ r.calls = <<>>
      ]_vars

\* Done has been pressed on a flow whose selection was plant 1 and the
\* foreign id 3: log_water_many was called once with both ids, plant 1 is
\* watered now and the flow state is cleared
C30_Witness ==
    /\ resp.op = "webhook"
    /\ resp.handler = "on_callback"
    /\ resp.update.tag = CB_W_DONE
    /\ resp.calls = << "log_water_many" >>
    /\ SeqToSet(resp.ids) = {1, 3}
    /\ user_data[resp.user] = Cleared
    /\ plants[1].last_watered_at = now

----------------------------------------------------------------------------
(* POST /api/water with elements of plant_ids that are no integers *)

J_x == << "\"", "x", "\"" >>

J_null == << "n", "u", "l", "l" >>

J_quoted1 == << "\"", "1", "\"" >>

J_true == << "t", "r", "u", "e" >>

J_fraction == << "1", ".", "5" >>

\* the JSON values a client may put in plant_ids: the ids of PlantIds as
\* numbers, and "x", null, "1", true and 1.5
JsonElems ==
    { Itoa(i) : i \in PlantIds }
    \cup { J_x, J_null, J_quoted1, J_true, J_fraction }

JsonLists == UNION { [1..n -> JsonElems] : n \in 0..MaxIds }

\* a POST /api/water arrives whose plant_ids is any list of JSON values
ArriveWaterJson ==
    /\ Idle
    /\ \E data \in ApiPayloads(now), elems \in JsonLists :
         req' = [op |-> "api_water", data |-> data, plant_ids |-> elems,
                 fail |-> 0]
    /\ UNCHANGED <<now, init_data, resp, plants, user_data, env, plant_photos>>

NextJson == ArriveWaterJson \/ ApiWater \/ Deliver \/ Tick

SpecJson == InitApi /\ [][NextJson]_vars

\* the values of plant_ids that are not convertible to an integer
NotIntegers == { J_x, J_null }

\* C34: POST /api/water with accepted initData and a plant_ids holding an
\* element that is not convertible to an integer is answered 400, calls
\* log_water_many for no id and leaves every row as it was, the rows of the
\* valid ids of the same list included.
C34_BadElementRejectsTheList ==
    [][ (ApiWater /\ resp'.v.ok
           /\ \E i \in 1..Len(req.plant_ids) : req.plant_ids[i] \in NotIntegers)
          => /\ resp'.status = 400
             /\ resp'.calls = <<>>
             /\ plants' = plants ]_vars

\* C34: user 1 has posted [1, "x"]: the answer is 400 and plant 1, an active
\* plant of user 1, is still never watered.
C34_Witness ==
    /\ resp.op = "api_water"
    /\ resp.v.ok /\ resp.v.user_id = 1
    /\ resp.status = 400
    /\ resp.plant_ids = << Itoa(1), J_x >>
    /\ plants[1].last_watered_at = NULL

----------------------------------------------------------------------------
(* GET /api/today: the summary against the records *)

\* the table after set_active(uid, pid, False) for each plant of `gone`
Archived(tbl, gone) ==
    [pid \in DOMAIN tbl |->
        IF pid \in gone THEN [tbl[pid] EXCEPT !.active = FALSE] ELSE tbl[pid]]

\* GET /api/today is served while another request archives the plants of
\* `gone`, each after the list read and before its context read
ApiTodayAmid ==
    /\ req.op = "api_today"
    /\ LET v == ValidateAndGetUserId(req.data, now)
           listed == { pid \in DOMAIN plants :
                         v.ok /\ MatchesActive(plants, v.user_id, pid) }
       IN  \E gone \in SUBSET listed :
         /\ gone # {}
         /\ resp' = ApiTodayResponse(plants, req, now, gone)
         /\ plants' = Archived(plants, gone)
    /\ req' = NoReq
    /\ init_data' = req.data
    /\ UNCHANGED <<now, user_data, env, plant_photos>>

NextAmid == ArriveToday \/ ApiToday \/ ApiTodayAmid \/ Deliver

\* as InitToday, in one pair of zones: the mini-app path reads neither
InitAmid ==
    /\ now = ChatNow
    /\ init_data = <<>>
    /\ req = NoReq
    /\ resp = NoResp
    /\ plants \in { TodayPlants(e1, l1, e2, l2) :
                      e1 \in Intervals, e2 \in Intervals,
                      l1 \in {NULL} \cup Whens(ChatNow),
                      l2 \in {NULL} \cup Whens(ChatNow) }
    /\ user_data = NoUserData
    /\ env = UtcEnv
    /\ plant_photos = <<>>

SpecAmid == InitAmid /\ [][NextAmid]_vars

WithStatus(items, status) ==
    Cardinality({ i \in 1..Len(items) : items[i].status = status })

\* C33: in every result of GET /api/today, summary.total is the number of
\* records of items and summary.overdue, summary.due and summary.setup are
\* the numbers of records with that status, also when a plant was archived
\* between the list read and its context read.
C33_SummaryCountsTheRecords ==
    (resp.op = "api_today" /\ resp.status = 200) =>
        /\ resp.body.summary.total = Len(resp.body.items)
        /\ resp.body.summary.overdue = WithStatus(resp.body.items, "overdue")
        /\ resp.body.summary.due = WithStatus(resp.body.items, "due")
        /\ resp.body.summary.setup = WithStatus(resp.body.items, "setup")

\* C33: of the two plants list_plants returned for user 1, plant 2 was
\* archived before its context read: two context reads, one record, and a
\* summary of total 1 and setup 1.
C33_Witness ==
    /\ resp.op = "api_today"
    /\ resp.status = 200
    /\ resp.v.user_id = 1
    /\ resp.calls = << "list_plants", "get_plant_context", "get_plant_context" >>
    /\ ~plants[2].active
    /\ Len(resp.body.items) = 1
    /\ resp.body.items[1].id = 1
    /\ resp.body.summary = [overdue |-> 0, due |-> 0, setup |-> 1, total |-> 1]

----------------------------------------------------------------------------
(* bot.py: every chat flow.  The commands, buttons, texts and photos a user
   may send in any order, with the flows of /add_plant, /rename_plant,
   /archive, /restore and /photo next to those of /water and /set_norms. *)

MaxUpdates == 5

\* the texts a chat message may carry: the five menu labels, an index, and
\* an index with an interval or a name
FlowTexts ==
    { MENU_TODAY, MENU_WATER, MENU_PHOTO, MENU_PLANTS, MENU_NORMS,
      << "1" >>, << "1", " ", "7" >> }

\* the table a run starts from: one plant of each user
FlowPlants ==
    << Row(1, N_B, NULL, NULL, TRUE), Row(2, N_c, NULL, NULL, TRUE) >>

\* the callback data an update may carry: the buttons of the water, photo
\* and analysis keyboards for the user's plants; a self-made update also
\* names another user's plant, the id 0, an id no plant has and no number
FlowCallbackChoices(tbl, sender, u) ==
    CallbackChoices(tbl, sender, u)
    \cup { Callback(CB_P_CANCEL, <<>>), Callback(CB_A_CANCEL, <<>>) }
    \cup { Callback(tag, Itoa(ListPlants(tbl, u)[i][1])) :
             tag \in {CB_P_TOGGLE, CB_A_RUN},
             i \in 1..Len(ListPlants(tbl, u)) }
    \cup IF sender = "forged"
         THEN { Callback(CB_P_TOGGLE, arg) :
                  arg \in { << "2" >>, << "0" >>, << "9" >>, << "x" >> } }
         ELSE {}

PhotoMessage == [kind |-> "photo", text |-> <<>>, tag |-> "", arg |-> <<>>]

CmdAddPlant ==
    /\ Idle
    /\ \E sender \in Senders, u \in ChatUsers :
         Dispatched("cmd_add_plant", sender, u, Command("add_plant"),
                    CmdAddPlantOut(plants))

CmdRename ==
    /\ Idle
    /\ \E sender \in Senders, u \in ChatUsers :
         Dispatched("cmd_rename", sender, u, Command("rename_plant"),
                    CmdRenameOut(plants, user_data[u], u))

CmdArchive ==
    /\ Idle
    /\ \E sender \in Senders, u \in ChatUsers :
         Dispatched("cmd_archive", sender, u, Command("archive"),
                    CmdArchiveOut(plants, user_data[u], u))

CmdRestore ==
    /\ Idle
    /\ \E sender \in Senders, u \in ChatUsers :
         Dispatched("cmd_restore", sender, u, Command("restore"),
                    CmdRestoreOut(plants, user_data[u], u))

CmdPhoto ==
    /\ Idle
    /\ \E sender \in Senders, u \in ChatUsers :
         Dispatched("cmd_photo", sender, u, Command("photo"),
                    CmdPhotoOut(plants, user_data[u], u))

CmdPlants ==
    /\ Idle
    /\ \E sender \in Senders, u \in ChatUsers :
         Dispatched("cmd_plants", sender, u, Command("plants"),
                    CmdPlantsOut(plants, user_data[u], u))

CmdNorms ==
    /\ Idle
    /\ \E sender \in Senders, u \in ChatUsers :
         Dispatched("cmd_norms", sender, u, Command("norms"),
                    CmdNormsOut(plants, user_data[u], u))

CmdArchived ==
    /\ Idle
    /\ \E sender \in Senders, u \in ChatUsers :
         Dispatched("cmd_archived", sender, u, Command("archived"),
                    CmdArchivedOut(plants, user_data[u], u))

\* on_callback for any button of any keyboard
OnCallbackFlow ==
    /\ Idle
    /\ \E sender \in Senders, u \in ChatUsers :
         \E data \in FlowCallbackChoices(plants, sender, u) :
            Dispatched("on_callback", sender, u, data,
                       OnCallbackOut(plants, user_data[u], u, data, now))

\* handle_text for the texts of FlowTexts
HandleTextFlow ==
    /\ Idle
    /\ \E sender \in Senders, u \in ChatUsers, text \in FlowTexts :
         \E order \in FetchOrders(plants, u) :
            Dispatched("handle_text", sender, u, TextMessage(text),
                       HandleTextOut(plants, user_data[u], u, text, now,
                                     order, env))

\* handle_photo
HandlePhoto ==
    /\ Idle
    /\ \E sender \in Senders, u \in ChatUsers :
         LET o == HandlePhotoOut(plant_photos, plants, user_data[u], u, "f")
         IN  /\ resp' = [op |-> "webhook", handler |-> "handle_photo",
                         sender |-> sender, user |-> u,
                         update |-> PhotoMessage, status |-> 200,
                         calls |-> o.calls, result |-> NoResult,
                         ids |-> <<>>, when |-> NULL, reply |-> o.reply]
             /\ plant_photos' = o.photos
             /\ user_data' = [user_data EXCEPT ![u] = o.ud]
    /\ UNCHANGED <<now, init_data, req, plants, env>>

InitFlow ==
    /\ now = ChatNow
    /\ init_data = <<>>
    /\ req = NoReq
    /\ resp = NoResp
    /\ plants = FlowPlants
    /\ user_data = NoUserData
    /\ env = UtcEnv
    /\ plant_photos = <<>>

\* the response leaves, and a second passes before the next update
DeliverFlow ==
    /\ req.op = "none"
    /\ resp.op # "none"
    /\ resp' = NoResp
    /\ now' = now + 1
    /\ UNCHANGED <<init_data, req, plants, user_data, env, plant_photos>>

\* a run handles at most MaxUpdates updates
UpdatesLeft == now < ChatNow + MaxUpdates

NextFlow ==
    \/ UpdatesLeft /\ CmdToday
    \/ UpdatesLeft /\ CmdWater
    \/ UpdatesLeft /\ CmdSetNorms
    \/ UpdatesLeft /\ CmdCancel
    \/ UpdatesLeft /\ CmdAddPlant
    \/ UpdatesLeft /\ CmdRename
    \/ UpdatesLeft /\ CmdArchive
    \/ UpdatesLeft /\ CmdRestore
    \/ UpdatesLeft /\ CmdPhoto
    \/ UpdatesLeft /\ CmdPlants
    \/ UpdatesLeft /\ CmdNorms
    \/ UpdatesLeft /\ CmdArchived
    \/ UpdatesLeft /\ OnCallbackFlow
    \/ UpdatesLeft /\ HandleTextFlow
    \/ UpdatesLeft /\ HandlePhoto
    \/ DeliverFlow

SpecFlow == InitFlow /\ [][NextFlow]_vars

AwaitFlags ==
    { "await_add", "await_rename", "await_norm", "await_water_buttons",
      "await_archive", "await_restore", "await_photo_pick",
      "await_photo_upload" }

\* the step is one a handler took for a chat update
ChatStep == resp.op = "none" /\ resp'.op = "webhook"

OneFlag ==
    \A u \in ChatUsers :
        /\ user_data[u].flags \subseteq AwaitFlags
        /\ Cardinality(user_data[u].flags) <= 1

\* the replies that end a flow, and the updates that cancel one
Completions ==
    { "ADD_DONE", "RENAME_DONE", "RENAME_FAIL", "NORM_DONE", "WATER_DONE",
      "archive_done", "RESTORE_DONE", "PHOTO_SAVED" }

Cancels(r) ==
    r.handler = "cmd_cancel" \/ r.update.tag \in {CB_W_CANCEL, CB_P_CANCEL}

\* user_data as clear() left it, but for the flag and what belongs to it
ClearedBut(ud) ==
    [ud EXCEPT !.flags = {}, !.water_rows_cache = <<>>,
               !.photo_plant_id = NULL] = Cleared

\* C31: a user's user_data never holds more than one await flag; a step
\* that sets a flag leaves user_data cleared but for that flag and what
\* belongs to it, and a step that completes or cancels a flow leaves
\* user_data cleared.
C31_AtMostOneFlag ==
    /\ []OneFlag
    /\ [][ ChatStep =>
             LET before == user_data[resp'.user]
                 after == user_data'[resp'.user]
             IN  /\ (after.flags # {} /\ after # before
                       /\ resp'.update.tag # CB_W_TOGGLE) =>
                        /\ ClearedBut(after)
                        /\ Cardinality(after.flags) = 1
                 /\ (resp'.reply \in Completions \/ Cancels(resp')) =>
                        after = Cleared ]_vars

\* C31: /photo was sent while the water flow was open, and a plant was then
\* picked: the only flag left is await_photo_upload.
C31_Witness ==
    /\ resp.op = "webhook"
    /\ resp.update.tag = CB_P_TOGGLE
    /\ user_data[resp.user].flags = {"await_photo_upload"}
    /\ user_data[resp.user].photo_plant_id = 1
    /\ user_data[resp.user].water_sel_ids = {}
    /\ user_data[resp.user].water_rows_cache = <<>>
    /\ now >= ChatNow + 3

----------------------------------------------------------------------------
(* The main menu labels inside a flow *)

MenuLabels == { MENU_TODAY, MENU_WATER, MENU_PHOTO, MENU_PLANTS, MENU_NORMS }

\* what cmd_today, cmd_water, cmd_photo, cmd_plants and cmd_norms reply
CommandReplies ==
    { "today", "water_screen", "PHOTO_CHOOSE", "plants", "norms",
      "norms_none", "EMPTY_LIST" }

\* what the text branch of the flow with this flag replies to a text that
\* is neither a number nor a list of numbers; the plant pick of /photo has
\* no text branch and leaves the text unanswered
FlowReplyTo(flag) ==
    CASE flag = "await_add" -> "ADD_DONE"
      [] flag = "await_rename" -> "RENAME_BAD_FORMAT"
      [] flag = "await_norm" -> "NORM_BAD_FORMAT"
      [] flag = "await_water_buttons" -> "WATER_BAD"
      [] flag = "await_archive" -> "WATER_BAD"
      [] flag = "await_restore" -> "RESTORE_BAD"
      [] flag = "await_photo_upload" -> "PHOTO_EXPECTED"
      [] OTHER -> "none"

\* C32: a text equal to a main menu label that arrives while an await flag
\* is set is not routed to cmd_today, cmd_water, cmd_photo, cmd_plants or
\* cmd_norms: no status computation and no norms read are made, no other
\* flow is opened, and the reply is that of the text branch of the open
\* flow, which took the label as its input.
C32_MenuLabelInsideFlow ==
    [][ (ChatStep /\ resp'.handler = "handle_text"
           /\ resp'.update.text \in MenuLabels
           /\ user_data[resp'.user].flags # {}) =>
          LET before == user_data[resp'.user]
              after == user_data'[resp'.user]
          IN  /\ resp'.reply \notin CommandReplies
              /\ \E flag \in before.flags : resp'.reply = FlowReplyTo(flag)
              /\ \A i \in 1..Len(resp'.calls) :
                   resp'.calls[i] \notin {"compute_today", "get_norms"}
              /\ after \in {before, Cleared}
              /\ ("await_add" \notin before.flags) => plants' = plants ]_vars

\* C32: the label of /today arrived while /add_plant was waiting for a name:
\* no status was computed, and the user now has a plant of that name.
C32_Witness ==
    /\ resp.op = "webhook"
    /\ resp.handler = "handle_text"
    /\ resp.update.text = MENU_TODAY
    /\ resp.reply = "ADD_DONE"
    /\ resp.calls = << "add_plant" >>
    /\ user_data[resp.user] = Cleared
    /\ \E pid \in DOMAIN plants :
         plants[pid].user_id = resp.user /\ plants[pid].name = MENU_TODAY

----------------------------------------------------------------------------
(* Which photos are stored *)

\* the flow of /photo has reached the upload: the flag and a picked id
AwaitsUpload(ud) ==
    "await_photo_upload" \in ud.flags /\ ud.photo_plant_id # NULL

\* C35: plant_photos changes only by one row appended in a handle_photo
\* step taken while await_photo_upload is set with a picked plant id, and
\* the row is for that id and that user; a photo received in any other
\* state changes neither plant_photos nor user_data; and the step that
\* stores a photo leaves user_data cleared, so that the next photo is not
\* stored.
C35_PhotoStoredOnlyInFlow ==
    [][ /\ plant_photos' # plant_photos =>
             /\ ChatStep
             /\ resp'.handler = "handle_photo"
             /\ AwaitsUpload(user_data[resp'.user])
             /\ plant_photos' =
                  Append(plant_photos,
                         [user_id |-> resp'.user,
                          plant_id |-> user_data[resp'.user].photo_plant_id,
                          tg_file_id |-> "f"])
             /\ user_data'[resp'.user] = Cleared
        /\ (ChatStep /\ resp'.handler = "handle_photo"
              /\ ~AwaitsUpload(user_data[resp'.user])) =>
             /\ plant_photos' = plant_photos
             /\ user_data' = user_data ]_vars

\* C35: after /photo and the pick of plant 1, a first photo was stored for
\* plant 1; a second photo has arrived and was not stored.
C35_Witness ==
    /\ resp.op = "webhook"
    /\ resp.handler = "handle_photo"
    /\ resp.calls = <<>>
    /\ plant_photos = << [user_id |-> 1, plant_id |-> 1, tg_file_id |-> "f"] >>
    /\ user_data[1] = Cleared

====
